---- MODULE Spec2Model ----
(***************************************************************************)
(* A model of the decision and scheduling engine of cdc-bot:               *)
(*   - filter_practical_slots  (src/booking_checker.py), the slot filter   *)
(*   - RefreshMode             (src/refreshmode.py), the polling modes     *)
(*   - main                    (src/main.py), the polling loop             *)
(*   - TelegramBot             (src/telegram.py), the command channel      *)
(*   - LessonHandler           (src/lesson_handler.py), the portal client  *)
(* The specifications share the variables:                                 *)
(*   FilterSpec  one call of the filter on inputs drawn from bounded sets  *)
(*   FilterTwiceSpec  the filter applied to its own result                 *)
(*   SchedSpec   a RefreshMode object driven by arbitrary calls            *)
(*   Spec        the polling loop of main()                                *)
(*   BotSpec     check_commands under arriving updates                     *)
(*   HandlerSpec select_course and the wait for the slot table             *)
(***************************************************************************)
EXTENDS Integers, Sequences, FiniteSets, TLC

VARIABLES
    pc,                   \* position of the control flow
    config,               \* the loaded config.yaml (the policy)
    all_manual_bookings,  \* main: the known bookings (list of {date, session})
    all_slots,            \* main: the snapshot returned by get_slot_statuses
    filtered,             \* main: the list returned by filter_practical_slots
    frame,                \* the locals of the last filter call when it returned or raised
    probe_mode,           \* RefreshMode.probe_mode
    aggressive_cycles,    \* RefreshMode.aggressive_cycles
    probe_start,          \* RefreshMode.probe_start (None or a time)
    aggro_range,          \* RefreshMode.aggro_range
    now,                  \* time.time(), in seconds
    current_mode,         \* the value returned by the last on_slot_detected
    last_call,            \* the last RefreshMode call: its name, arguments and the state before it
    iterations,           \* main: the iterations of "while True" started so far
    cycle_counter,        \* main: cycle_counter
    slot_found_counter,   \* main: slot_found_counter
    backoff_multiplier,   \* main: backoff_multiplier
    slot_i,               \* main: position in filtered of "for slot in filtered"
    booked_slots,         \* main: booked_slots
    booked,               \* main: booked
    recheck_i,            \* main: position in booked_slots of "for slot in booked_slots"
    log                   \* main: what the current iteration has done so far, in order

loopvars == <<iterations, cycle_counter, slot_found_counter, backoff_multiplier,
              slot_i, booked_slots, booked, recheck_i, log>>

vars == <<pc, config, all_manual_bookings, all_slots, filtered, frame,
          probe_mode, aggressive_cycles, probe_start, aggro_range, now,
          current_mode, last_call, loopvars>>

----------------------------------------------------------------------------
(* Bounds of the model *)

MaxSlots == 2

MaxBookings == 2

\* SchedSpec: the clock stops at MaxTime.
MaxTime == 14

\* Spec: the polling loop starts at most MaxCycles iterations.
MaxCycles == 2

----------------------------------------------------------------------------
(* Values *)

None == -1

\* The date cells of the slot table as the page prints them; the last one
\* is a cell strptime("%d/%b/%Y") rejects.
RawDates == {"01/Jan/2025", "02/Jan/2025", "TBC"}

\* datetime.strptime(raw, "%d/%b/%Y") followed by strftime("%Y-%m-%d");
\* "ValueError" stands for the exception strptime raises.
DateStr(raw) ==
    CASE raw = "01/Jan/2025" -> "2025-01-01"
      [] raw = "1/Jan/2025"  -> "2025-01-01"
      [] raw = "02/Jan/2025" -> "2025-01-02"
      [] raw = "2/Jan/2025"  -> "2025-01-02"
      [] OTHER               -> "ValueError"

Dates == {"2025-01-01", "2025-01-02"}

\* The day-name cell printed beside a date cell.
DayNameOf(raw) ==
    CASE raw = "01/Jan/2025" -> "Wednesday"
      [] raw = "1/Jan/2025"  -> "Wednesday"
      [] raw = "02/Jan/2025" -> "Thursday"
      [] raw = "2/Jan/2025"  -> "Thursday"
      [] OTHER               -> ""

\* slot["dayname"][:3].upper()
Weekday(dayname) ==
    CASE dayname = "Wednesday" -> "WED"
      [] dayname = "Thursday"  -> "THU"
      [] OTHER                 -> dayname

Weekdays == {"WED", "THU"}

\* Sessions of the day used by the model: 2 and 5 are peak, 3 is non-peak.
Sessions == {2, 3, 5}

\* config.get("non_peak_sessions", {1, 3, 4})
DefaultNonPeak == {1, 3, 4}

----------------------------------------------------------------------------
(* filter_practical_slots, src/booking_checker.py *)

\* booked_slots = {b["date"].strftime("%Y-%m-%d"): b["session"] for b in
\* existing_bookings}: a later booking of a date replaces an earlier one.
RECURSIVE BookedSlots(_)
BookedSlots(existing_bookings) ==
    IF existing_bookings = << >> THEN << >>
    ELSE LET n    == Len(existing_bookings)
             b    == existing_bookings[n]
             rest == BookedSlots(SubSeq(existing_bookings, 1, n - 1))
         IN  [d \in (DOMAIN rest) \cup {b.date} |->
                 IF d = b.date THEN b.session ELSE rest[d]]

\* The locals of a call before the first slot is looked at.  positions and
\* notified are not in the code: they record which input positions were
\* appended to filtered and which led to a bot.send.
NewFrame ==
    [filtered |-> << >>, dates_with_a_found_slot |-> {}, sent |-> << >>,
     positions |-> << >>, notified |-> << >>, raised |-> FALSE]

\* 1. One slot per day check
PerDayCap(one_slot_per_day, dates_with_a_found_slot, date_str) ==
    one_slot_per_day /\ date_str \in dates_with_a_found_slot

\* Upgrade logic: earlier, non-peak session
IsUpgrade(session, booked_session, non_peak_sessions) ==
    session < booked_session /\ session \in non_peak_sessions

\* A faulty variant of Match: the slot is put in front of the list.
MatchPrepends(fr, i, slot, date_str) ==
    [fr EXCEPT !.filtered = <<slot>> \o @,
               !.dates_with_a_found_slot = @ \cup {date_str},
               !.positions = Append(@, i)]

\* filtered.append(slot); dates_with_a_found_slot.add(date_str)
Match(fr, i, slot, date_str) ==
    [fr EXCEPT !.filtered = Append(@, slot),
               !.dates_with_a_found_slot = @ \cup {date_str},
               !.positions = Append(@, i)]

\* A faulty variant of MatchUpgrade: the date is not added to
\* dates_with_a_found_slot.
MatchUpgradeForgetsDate(fr, i, slot, date_str, booked_session) ==
    [fr EXCEPT !.sent = Append(@, [kind |-> "upgrade", date |-> date_str,
                                   new |-> slot.session,
                                   current |-> booked_session]),
               !.notified = Append(@, i),
               !.filtered = Append(@, slot),
               !.positions = Append(@, i)]

\* bot.send(msg) of the upgrade branch, then the match
MatchUpgrade(fr, i, slot, date_str, booked_session) ==
    Match([fr EXCEPT !.sent = Append(@, [kind |-> "upgrade", date |-> date_str,
                                         new |-> slot.session,
                                         current |-> booked_session]),
                     !.notified = Append(@, i)],
          i, slot, date_str)

\* A faulty variant of BookedRule: the upgrade is matched without bot.send.
BookedRuleSilent(fr, i, slot, date_str, cfg, booked_session) ==
    IF IsUpgrade(slot.session, booked_session, cfg.non_peak_sessions)
    THEN Match(fr, i, slot, date_str)
    ELSE fr

\* 2. Check against existing bookings (the date is booked)
BookedRule(fr, i, slot, date_str, cfg, booked_session) ==
    IF IsUpgrade(slot.session, booked_session, cfg.non_peak_sessions)
    THEN MatchUpgrade(fr, i, slot, date_str, booked_session)
    ELSE fr

\* 3. Included dates (the date has an entry in included_dates)
IncludedRule(fr, i, slot, date_str, cfg) ==
    IF slot.session \in cfg.included_dates[date_str]
    THEN Match(fr, i, slot, date_str)
    ELSE fr

\* 4. Excluded dates
ExcludedRule(excluded_dates, date_str) ==
    date_str \in excluded_dates

\* A faulty variant of AllowedRule: a weekday without sessions allows all.
AllowedRuleEmptyAllowsAll(allowed_sessions, weekday, session) ==
    LET allowed_sessions_for_day ==
            IF weekday \in DOMAIN allowed_sessions
            THEN allowed_sessions[weekday] ELSE {}
    IN  ~(allowed_sessions_for_day # {} /\ session \notin allowed_sessions_for_day)

\* 5. Allowed days/sessions: allowed_sessions.get(weekday, set())
AllowedRule(allowed_sessions, weekday, session) ==
    LET allowed_sessions_for_day ==
            IF weekday \in DOMAIN allowed_sessions
            THEN allowed_sessions[weekday] ELSE {}
    IN  ~(allowed_sessions_for_day = {} \/ session \notin allowed_sessions_for_day)

\* A faulty variant of FilterSlot: the excluded dates are checked before
\* the included dates.
FilterSlotExcludedFirst(fr, i, slot, cfg, booked_by_date) ==
    LET date_str == DateStr(slot.date)
        weekday  == Weekday(slot.dayname)
    IN  IF date_str = "ValueError" THEN [fr EXCEPT !.raised = TRUE]
        ELSE IF PerDayCap(cfg.one_slot_per_day, fr.dates_with_a_found_slot, date_str)
        THEN fr
        ELSE IF date_str \in DOMAIN booked_by_date
        THEN BookedRule(fr, i, slot, date_str, cfg, booked_by_date[date_str])
        ELSE IF ExcludedRule(cfg.excluded_dates, date_str) THEN fr
        ELSE IF date_str \in DOMAIN cfg.included_dates
        THEN IncludedRule(fr, i, slot, date_str, cfg)
        ELSE IF ~AllowedRule(cfg.allowed_sessions, weekday, slot.session) THEN fr
        ELSE Match(fr, i, slot, date_str)

\* The body of "for slot in slots", on the slot at position i;
\* booked_by_date is the dict booked_slots of the code.
FilterSlot(fr, i, slot, cfg, booked_by_date) ==
    LET date_str == DateStr(slot.date)
        weekday  == Weekday(slot.dayname)
    IN  IF date_str = "ValueError" THEN [fr EXCEPT !.raised = TRUE]
        ELSE IF PerDayCap(cfg.one_slot_per_day, fr.dates_with_a_found_slot, date_str)
        THEN fr
        ELSE IF date_str \in DOMAIN booked_by_date
        THEN BookedRule(fr, i, slot, date_str, cfg, booked_by_date[date_str])
        ELSE IF date_str \in DOMAIN cfg.included_dates
        THEN IncludedRule(fr, i, slot, date_str, cfg)
        ELSE IF ExcludedRule(cfg.excluded_dates, date_str) THEN fr
        ELSE IF ~AllowedRule(cfg.allowed_sessions, weekday, slot.session) THEN fr
        ELSE Match(fr, i, slot, date_str)

\* The loop over slots[i..]; an exception ends it.
RECURSIVE FilterLoop(_, _, _, _, _)
FilterLoop(fr, i, slots, cfg, booked_by_date) ==
    IF i > Len(slots) \/ fr.raised THEN fr
    ELSE FilterLoop(FilterSlot(fr, i, slots[i], cfg, booked_by_date),
                    i + 1, slots, cfg, booked_by_date)

\* A faulty variant of filter_practical_slots: the loop starts at the
\* second slot.
filter_skips_first(slots, cfg, existing_bookings) ==
    FilterLoop(NewFrame, 2, slots, cfg, BookedSlots(existing_bookings))

\* The call: the frame when the function returns (raised = FALSE, filtered
\* is the value returned) or when strptime raises out of it (raised = TRUE).
filter_practical_slots(slots, cfg, existing_bookings) ==
    FilterLoop(NewFrame, 1, slots, cfg, BookedSlots(existing_bookings))

----------------------------------------------------------------------------
(* RefreshMode, src/refreshmode.py *)

\* probe_duration=10 of RefreshMode.__init__
ProbeDuration == 10

\* aggro_range=(6, 8) of RefreshMode.__init__
DefaultAggroRange == <<6, 8>>

\* The object's fields as a record.
RM == [probe_mode |-> probe_mode, aggressive_cycles |-> aggressive_cycles,
       probe_start |-> probe_start]

\* RefreshMode.__init__
NewRefreshMode == [probe_mode |-> FALSE, aggressive_cycles |-> 0, probe_start |-> None]

in_probe(rm) == rm.probe_mode

in_aggressive(rm) == rm.aggressive_cycles > 0

\* random.randint(*self.aggro_range): any integer of the closed range.
RandInt(range) == range[1]..range[2]

\* A faulty variant of trigger_aggressive_mode: the count is drawn from 0.
trigger_from_zero(rm, range) ==
    IF rm.aggressive_cycles < 4
    THEN {[rm EXCEPT !.aggressive_cycles = n] : n \in 0..range[2]}
    ELSE {rm}

\* A faulty variant of trigger_aggressive_mode: the count is drawn anew
\* whatever is left of the running burst.
trigger_always_rearms(rm, range) ==
    {[rm EXCEPT !.aggressive_cycles = n] : n \in RandInt(range)}

\* A faulty variant of trigger_aggressive_mode: the count may be drawn
\* one above the range.
trigger_above_range(rm, range) ==
    IF rm.aggressive_cycles < 4
    THEN {[rm EXCEPT !.aggressive_cycles = n] : n \in range[1]..(range[2] + 1)}
    ELSE {rm}

\* trigger_aggressive_mode: the objects the call may leave.
trigger_aggressive_mode(rm, range) ==
    IF rm.aggressive_cycles < 4
    THEN {[rm EXCEPT !.aggressive_cycles = n] : n \in RandInt(range)}
    ELSE {rm}

\* A faulty variant of on_slot_detected: Probe is entered during an
\* aggressive burst too.
on_slot_detected_probe_in_burst(rm, range, slots_found, filtered_slots_found, t) ==
    IF filtered_slots_found
    THEN {[rm |-> [r EXCEPT !.probe_mode = FALSE, !.probe_start = None],
           ret |-> "aggressive"] : r \in trigger_aggressive_mode(rm, range)}
    ELSE IF slots_found /\ ~rm.probe_mode
    THEN {[rm |-> [rm EXCEPT !.probe_mode = TRUE, !.probe_start = t],
           ret |-> "probe"]}
    ELSE {[rm |-> rm, ret |-> "none"]}

\* A faulty variant of on_slot_detected: a filtered match leaves
\* probe_start as it was.
on_slot_detected_keeps_probe_start(rm, range, slots_found, filtered_slots_found, t) ==
    IF filtered_slots_found
    THEN {[rm |-> [r EXCEPT !.probe_mode = FALSE],
           ret |-> "aggressive"] : r \in trigger_aggressive_mode(rm, range)}
    ELSE IF slots_found /\ ~in_aggressive(rm) /\ ~rm.probe_mode
    THEN {[rm |-> [rm EXCEPT !.probe_mode = TRUE, !.probe_start = t],
           ret |-> "probe"]}
    ELSE {[rm |-> rm, ret |-> "none"]}

\* A faulty variant of on_slot_detected: a sighting during Probe starts
\* the Probe anew.
on_slot_detected_extends_probe(rm, range, slots_found, filtered_slots_found, t) ==
    IF filtered_slots_found
    THEN {[rm |-> [r EXCEPT !.probe_mode = FALSE, !.probe_start = None],
           ret |-> "aggressive"] : r \in trigger_aggressive_mode(rm, range)}
    ELSE IF slots_found /\ ~in_aggressive(rm)
    THEN {[rm |-> [rm EXCEPT !.probe_mode = TRUE, !.probe_start = t],
           ret |-> "probe"]}
    ELSE {[rm |-> rm, ret |-> "none"]}

\* A faulty variant of on_slot_detected: a filtered match starts the burst
\* and leaves the Probe fields as they were.
on_slot_detected_stays_in_probe(rm, range, slots_found, filtered_slots_found, t) ==
    IF filtered_slots_found
    THEN {[rm |-> r, ret |-> "aggressive"] : r \in trigger_aggressive_mode(rm, range)}
    ELSE IF slots_found /\ ~in_aggressive(rm) /\ ~rm.probe_mode
    THEN {[rm |-> [rm EXCEPT !.probe_mode = TRUE, !.probe_start = t],
           ret |-> "probe"]}
    ELSE {[rm |-> rm, ret |-> "none"]}

\* on_slot_detected: the pairs (object left, value returned) the call may
\* have; t is time.time().
on_slot_detected(rm, range, slots_found, filtered_slots_found, t) ==
    IF filtered_slots_found
    THEN {[rm |-> [r EXCEPT !.probe_mode = FALSE, !.probe_start = None],
           ret |-> "aggressive"] : r \in trigger_aggressive_mode(rm, range)}
    ELSE IF slots_found /\ ~in_aggressive(rm) /\ ~rm.probe_mode
    THEN {[rm |-> [rm EXCEPT !.probe_mode = TRUE, !.probe_start = t],
           ret |-> "probe"]}
    ELSE {[rm |-> rm, ret |-> "none"]}

\* A faulty variant of tick: Probe ends as soon as the elapsed time
\* reaches probe_duration.
tick_ends_probe_early(rm, t) ==
    LET r == IF rm.aggressive_cycles > 0
             THEN [rm EXCEPT !.aggressive_cycles = @ - 1]
             ELSE rm
    IN  IF r.probe_mode /\ r.probe_start # None /\ t - r.probe_start >= ProbeDuration
        THEN [r EXCEPT !.probe_mode = FALSE, !.probe_start = None]
        ELSE r

\* A faulty variant of tick: the count is lowered without looking at it.
tick_without_floor(rm, t) ==
    LET r == [rm EXCEPT !.aggressive_cycles = @ - 1]
    IN  IF r.probe_mode /\ r.probe_start # None /\ t - r.probe_start > ProbeDuration
        THEN [r EXCEPT !.probe_mode = FALSE, !.probe_start = None]
        ELSE r

\* tick; t is time.time().
tick(rm, t) ==
    LET r == IF rm.aggressive_cycles > 0
             THEN [rm EXCEPT !.aggressive_cycles = @ - 1]
             ELSE rm
    IN  IF r.probe_mode /\ r.probe_start # None /\ t - r.probe_start > ProbeDuration
        THEN [r EXCEPT !.probe_mode = FALSE, !.probe_start = None]
        ELSE r

----------------------------------------------------------------------------
(* sleep_random, src/common.py *)

\* A faulty variant of SleepRange: Probe is asked before Aggressive.
SleepRangeProbeFirst(rm) ==
    IF in_probe(rm) THEN <<5, 9>>
    ELSE IF in_aggressive(rm) THEN <<2, 4>>
    ELSE <<13, 40>>

\* Lines 17-25: the range of random.uniform by mode.
SleepRange(rm) ==
    IF in_aggressive(rm) THEN <<2, 4>>
    ELSE IF in_probe(rm) THEN <<5, 9>>
    ELSE <<13, 40>>

\* A faulty variant of sleep_random: the multiplier is left out.
sleep_random_without_backoff(rm, multiplier) ==
    {SleepRange(rm)[1], SleepRange(rm)[2]}

\* Lines 17-31: the delays the call may sleep, delay * backoff_multiplier
\* with delay one of the two ends of the range.
sleep_random(rm, multiplier) ==
    {delay * multiplier : delay \in {SleepRange(rm)[1], SleepRange(rm)[2]}}

----------------------------------------------------------------------------
(* Inputs of the filter *)

\* The page lists one row per date and one cell per session; the
\* snapshot holds the available cells in the order of the page.
PageRows == <<"01/Jan/2025", "TBC", "02/Jan/2025">>

PageSessions == <<2, 3, 5>>

Slot(raw, session) ==
    [date |-> raw, dayname |-> DayNameOf(raw), session |-> session]

NumCells == Len(PageRows) * Len(PageSessions)

PageCell(k) ==
    Slot(PageRows[((k - 1) \div Len(PageSessions)) + 1],
         PageSessions[((k - 1) % Len(PageSessions)) + 1])

\* The cells k..NumCells of the page that are in the set I, in page order.
RECURSIVE CellsFrom(_, _)
CellsFrom(k, I) ==
    IF k > NumCells THEN << >>
    ELSE IF k \in I THEN <<PageCell(k)>> \o CellsFrom(k + 1, I)
    ELSE CellsFrom(k + 1, I)

Snapshots ==
    {CellsFrom(1, I) : I \in {J \in SUBSET (1..NumCells) : Cardinality(J) <= MaxSlots}}

RECURSIVE SeqsUpTo(_, _)
SeqsUpTo(S, n) ==
    IF n = 0 THEN {<< >>}
    ELSE LET shorter == SeqsUpTo(S, n - 1)
         IN  shorter \cup {Append(q, x) : q \in {r \in shorter : Len(r) = n - 1}, x \in S}

\* The rows of the dashboard's table of bookings, in any order.
BookingUniverse ==
    {[date |-> "2025-01-01", session |-> 2],
     [date |-> "2025-01-01", session |-> 5],
     [date |-> "2025-01-02", session |-> 5]}

BookingLists == SeqsUpTo(BookingUniverse, MaxBookings)

NonPeakChoices == {DefaultNonPeak, {2, 3}}

AllowedChoices ==
    {<< >>,
     "WED" :> {},
     "WED" :> {3},
     "THU" :> {3, 5},
     ("WED" :> {2, 3, 5}) @@ ("THU" :> {2, 3, 5})}

IncludedChoices ==
    {<< >>,
     "2025-01-01" :> {},
     "2025-01-01" :> {3},
     "2025-01-01" :> {5},
     ("2025-01-01" :> {2, 3}) @@ ("2025-01-02" :> {3})}

ExcludedChoices == SUBSET Dates

Policies ==
    [one_slot_per_day : BOOLEAN, excluded_dates : ExcludedChoices,
     non_peak_sessions : NonPeakChoices, allowed_sessions : AllowedChoices,
     included_dates : IncludedChoices, auto_book : {FALSE}, dry_run : {FALSE}]

----------------------------------------------------------------------------
(* FilterSpec: one call of the filter *)

SchedIdle ==
    /\ probe_mode = FALSE /\ aggressive_cycles = 0 /\ probe_start = None
    /\ aggro_range = DefaultAggroRange /\ now = 0 /\ current_mode = "none"
    /\ last_call = [name |-> "init"]

\* The locals of main() before the polling loop.
LoopIdle ==
    /\ iterations = 0 /\ cycle_counter = 0 /\ slot_found_counter = 0
    /\ backoff_multiplier = 1
    /\ slot_i = 0 /\ booked_slots = << >> /\ booked = FALSE /\ recheck_i = 0
    /\ log = << >>

FilterInit ==
    /\ pc = "filter_call"
    /\ config \in Policies
    /\ all_manual_bookings \in BookingLists
    /\ all_slots \in Snapshots
    /\ filtered = << >>
    /\ frame = NewFrame
    /\ SchedIdle
    /\ LoopIdle

FilterCall ==
    /\ pc = "filter_call"
    /\ frame' = filter_practical_slots(all_slots, config, all_manual_bookings)
    /\ filtered' = IF frame'.raised THEN filtered ELSE frame'.filtered
    /\ pc' = IF frame'.raised THEN "filter_raised" ELSE "filter_returned"
    /\ UNCHANGED <<config, all_manual_bookings, all_slots, probe_mode,
                   aggressive_cycles, probe_start, aggro_range, now,
                   current_mode, last_call, loopvars>>

FilterNext == FilterCall

FilterSpec == FilterInit /\ [][FilterNext]_vars

\* The function is called once more, on the list it returned, with the
\* same policy and the same bookings; filtered keeps the first result and
\* frame holds the locals of the second call.
FilterAgain ==
    /\ pc = "filter_returned"
    /\ frame' = filter_practical_slots(filtered, config, all_manual_bookings)
    /\ pc' = IF frame'.raised THEN "refilter_raised" ELSE "refiltered"
    /\ UNCHANGED <<config, all_manual_bookings, all_slots, filtered, probe_mode,
                   aggressive_cycles, probe_start, aggro_range, now,
                   current_mode, last_call, loopvars>>

FilterTwiceNext == FilterCall \/ FilterAgain

FilterTwiceSpec == FilterInit /\ [][FilterTwiceNext]_vars

----------------------------------------------------------------------------
(* SchedSpec: a RefreshMode object under arbitrary calls *)

\* The ranges the object is built with: the default, a short one and one
\* that starts at 0.
AggroRanges == {DefaultAggroRange, <<1, 3>>, <<0, 2>>}

FilterIdle ==
    /\ config = [one_slot_per_day |-> FALSE, excluded_dates |-> {},
                 non_peak_sessions |-> DefaultNonPeak, allowed_sessions |-> << >>,
                 included_dates |-> << >>, auto_book |-> FALSE, dry_run |-> FALSE]
    /\ all_manual_bookings = << >> /\ all_slots = << >> /\ filtered = << >>
    /\ frame = NewFrame

SchedInit ==
    /\ pc = "sched"
    /\ probe_mode = NewRefreshMode.probe_mode
    /\ aggressive_cycles = NewRefreshMode.aggressive_cycles
    /\ probe_start = NewRefreshMode.probe_start
    /\ aggro_range \in AggroRanges
    /\ now = 0
    /\ current_mode = "none"
    /\ last_call = [name |-> "init"]
    /\ FilterIdle
    /\ LoopIdle

SchedFrame ==
    UNCHANGED <<pc, config, all_manual_bookings, all_slots, filtered, frame,
                aggro_range, loopvars>>

SetRM(rm) ==
    /\ probe_mode' = rm.probe_mode
    /\ aggressive_cycles' = rm.aggressive_cycles
    /\ probe_start' = rm.probe_start

SchedOnSlotDetected ==
    /\ pc = "sched"
    /\ \E slots_found \in BOOLEAN, filtered_slots_found \in BOOLEAN :
        \E out \in on_slot_detected(RM, aggro_range, slots_found,
                                    filtered_slots_found, now) :
            /\ SetRM(out.rm)
            /\ current_mode' = out.ret
            /\ last_call' = [name |-> "on_slot_detected",
                             slots_found |-> slots_found,
                             filtered_slots_found |-> filtered_slots_found,
                             before |-> RM, at |-> now]
    /\ UNCHANGED now
    /\ SchedFrame

SchedTick ==
    /\ pc = "sched"
    /\ SetRM(tick(RM, now))
    /\ last_call' = [name |-> "tick", before |-> RM, at |-> now]
    /\ UNCHANGED <<now, current_mode>>
    /\ SchedFrame

\* The backoff multipliers sleep_random is called with.
BackoffChoices == {1, 2}

\* sleep_random is called on the object; the time it takes is
\* SchedTimePasses.
SchedSleep ==
    /\ pc = "sched"
    /\ \E multiplier \in BackoffChoices :
        \E actual_delay \in sleep_random(RM, multiplier) :
            last_call' = [name |-> "sleep_random", before |-> RM, at |-> now,
                          multiplier |-> multiplier, actual_delay |-> actual_delay]
    /\ UNCHANGED <<probe_mode, aggressive_cycles, probe_start, now, current_mode>>
    /\ SchedFrame

\* Time passes between calls.
SchedTimePasses ==
    /\ pc = "sched"
    /\ \E t \in (now + 1)..MaxTime : now' = t
    /\ UNCHANGED <<probe_mode, aggressive_cycles, probe_start, current_mode, last_call>>
    /\ SchedFrame

SchedNext == SchedOnSlotDetected \/ SchedTick \/ SchedSleep \/ SchedTimePasses

SchedSpec == SchedInit /\ [][SchedNext]_vars

\* The same object when its owner keeps calling tick().
SchedLiveSpec == SchedSpec /\ WF_vars(SchedTick)

----------------------------------------------------------------------------
(* Spec: the polling loop of main(), src/main.py *)

\* One thing an iteration did: a call of the portal client, of the bot or a
\* sleep; slot is a position in filtered or booked_slots (0: none), res the
\* result or the text sent.
Ev(op, slot, res) == [op |-> op, slot |-> slot, res |-> res]

\* bot.check_commands()
Commands == {"none", "stop", "status", "screen", "stats"}

\* The results of LessonHandler.reserve_slot
Outcomes == {"success", "no_change", "alert", "error"}

\* The snapshots the loop sees: no slot, one slot, three slots, and a page
\* whose first available cell has a date strptime rejects.
MainCellSets == {{}, {3}, {2, 8, 9}, {4, 8}}

MainSnapshots == {CellsFrom(1, I) : I \in MainCellSets}

\* The policies of the loop: every session of both weekdays is allowed.
MainPolicies ==
    [one_slot_per_day : {FALSE}, excluded_dates : {{}},
     non_peak_sessions : {DefaultNonPeak},
     allowed_sessions : {("WED" :> {2, 3, 5}) @@ ("THU" :> {2, 3, 5})},
     included_dates : {<< >>}, auto_book : BOOLEAN, dry_run : BOOLEAN]

\* What get_all_manual_bookings returned at startup.
MainBookings == {<< >>, <<[date |-> "2025-01-01", session |-> 5]>>}

Init ==
    /\ pc = "loop_top"
    /\ config \in MainPolicies
    /\ all_manual_bookings \in MainBookings
    /\ all_slots = << >>
    /\ filtered = << >>
    /\ frame = NewFrame
    /\ SchedIdle
    /\ LoopIdle

\* The iteration sleeps with the scheduler in state rm and events evs added
\* to the log before it.
SleepRandom(rm, evs) ==
    \E actual_delay \in sleep_random(rm, backoff_multiplier) :
        /\ now' = now + actual_delay
        /\ log' = (log \o evs) \o <<Ev("sleep_random", 0, actual_delay)>>

\* The bot.send calls a filter call made.
SendEvents(fr) == [k \in 1..Len(fr.sent) |-> Ev("send", 0, "upgrade")]

\* A faulty variant of CheckCommands: /stop is answered and the iteration
\* goes on.
CheckCommandsIgnoresStop ==
    /\ pc = "loop_top"
    /\ iterations < MaxCycles
    /\ iterations' = iterations + 1
    /\ \E cmd \in Commands :
          /\ pc' = "refresh"
          /\ log' = <<Ev("check_commands", 0, IF cmd = "stop" THEN "stop" ELSE "go on")>>
    /\ UNCHANGED <<config, all_manual_bookings, all_slots, filtered, frame,
                   probe_mode, aggressive_cycles, probe_start, aggro_range, now,
                   current_mode, last_call, cycle_counter, slot_found_counter,
                   backoff_multiplier, slot_i, booked_slots, booked, recheck_i>>

\* Lines 164-191: a new iteration reads the commands; /stop leaves the loop.
CheckCommands ==
    /\ pc = "loop_top"
    /\ iterations < MaxCycles
    /\ iterations' = iterations + 1
    /\ \E cmd \in Commands :
          IF cmd = "stop"
          THEN /\ pc' = "stopped"
               /\ log' = <<Ev("check_commands", 0, "stop"), Ev("open_logout", 0, ""),
                           Ev("send", 0, "stopped")>>
          ELSE /\ pc' = "refresh"
               /\ log' = <<Ev("check_commands", 0, "go on")>>
    /\ UNCHANGED <<config, all_manual_bookings, all_slots, filtered, frame,
                   probe_mode, aggressive_cycles, probe_start, aggro_range, now,
                   current_mode, last_call, cycle_counter, slot_found_counter,
                   backoff_multiplier, slot_i, booked_slots, booked, recheck_i>>

\* Lines 201-206: reload, select_course, get_slot_statuses.
Refresh ==
    /\ pc = "refresh"
    /\ all_slots' \in MainSnapshots
    /\ log' = Append(log, Ev("get_slot_statuses", 0, ""))
    /\ pc' = "got_slots"
    /\ UNCHANGED <<config, all_manual_bookings, filtered, frame, probe_mode,
                   aggressive_cycles, probe_start, aggro_range, now, current_mode,
                   last_call, iterations, cycle_counter, slot_found_counter,
                   backoff_multiplier, slot_i, booked_slots, booked, recheck_i>>

\* Lines 201-203 and 319-341: tab.reload or select_course raises; the
\* handler around the whole run logs it and main() ends.
RefreshRaises ==
    /\ pc = "refresh"
    /\ log' = Append(log, Ev("raise", 0, "Exception"))
    /\ pc' = "crashed"
    /\ UNCHANGED <<config, all_manual_bookings, all_slots, filtered, frame,
                   probe_mode, aggressive_cycles, probe_start, aggro_range, now,
                   current_mode, last_call, iterations, cycle_counter,
                   slot_found_counter, backoff_multiplier, slot_i, booked_slots,
                   booked, recheck_i>>

\* A faulty variant of EmptySnapshot: the iteration is not counted.
EmptySnapshotNotCounted ==
    /\ pc = "got_slots"
    /\ all_slots = << >>
    /\ SleepRandom(RM, << >>)
    /\ pc' = "loop_top"
    /\ UNCHANGED <<config, all_manual_bookings, all_slots, filtered, frame,
                   probe_mode, aggressive_cycles, probe_start, aggro_range,
                   current_mode, last_call, iterations, cycle_counter,
                   slot_found_counter, backoff_multiplier, slot_i, booked_slots,
                   booked, recheck_i>>

\* Lines 230-236: the snapshot is empty.
EmptySnapshot ==
    /\ pc = "got_slots"
    /\ all_slots = << >>
    /\ SleepRandom(RM, << >>)
    /\ cycle_counter' = cycle_counter + 1
    /\ pc' = "loop_top"
    /\ UNCHANGED <<config, all_manual_bookings, all_slots, filtered, frame,
                   probe_mode, aggressive_cycles, probe_start, aggro_range,
                   current_mode, last_call, iterations, slot_found_counter,
                   backoff_multiplier, slot_i, booked_slots, booked, recheck_i>>

\* Lines 208-211 and 319-341: the filter raises ValueError.
FilterRaises ==
    /\ pc = "got_slots"
    /\ all_slots # << >>
    /\ slot_found_counter' = slot_found_counter + 1
    /\ frame' = filter_practical_slots(all_slots, config, all_manual_bookings)
    /\ frame'.raised
    /\ log' = (Append(log, Ev("filter", 0, "")) \o SendEvents(frame'))
                \o <<Ev("raise", 0, "ValueError")>>
    /\ pc' = "crashed"
    /\ UNCHANGED <<config, all_manual_bookings, all_slots, filtered, probe_mode,
                   aggressive_cycles, probe_start, aggro_range, now, current_mode,
                   last_call, iterations, cycle_counter, backoff_multiplier,
                   slot_i, booked_slots, booked, recheck_i>>

\* Lines 208-213: the filter returns and its result is given to
\* refresh_mode.on_slot_detected; out is what that call does.
FilterAndDetect(out) ==
    /\ pc = "got_slots"
    /\ all_slots # << >>
    /\ slot_found_counter' = slot_found_counter + 1
    /\ frame' = filter_practical_slots(all_slots, config, all_manual_bookings)
    /\ ~frame'.raised
    /\ filtered' = frame'.filtered
    /\ out \in on_slot_detected(RM, aggro_range, all_slots # << >>,
                                filtered' # << >>, now)
    /\ SetRM(out.rm)
    /\ current_mode' = out.ret
    /\ last_call' = [name |-> "on_slot_detected",
                     slots_found |-> all_slots # << >>,
                     filtered_slots_found |-> filtered' # << >>,
                     before |-> RM, at |-> now]

DetectEvents(fr) ==
    (<<Ev("filter", 0, "")>> \o SendEvents(fr)) \o <<Ev("on_slot_detected", 0, "")>>

\* Lines 208-229: slots were found and none passed the filter.
NoMatch ==
    \E out \in on_slot_detected(RM, aggro_range, TRUE, FALSE, now) :
        /\ FilterAndDetect(out)
        /\ filtered' = << >>
        /\ SleepRandom(out.rm, DetectEvents(frame'))
        /\ cycle_counter' = cycle_counter + 1
        /\ pc' = "loop_top"
        /\ UNCHANGED <<config, all_manual_bookings, all_slots, aggro_range,
                       iterations, backoff_multiplier, slot_i, booked_slots,
                       booked, recheck_i>>

\* A faulty variant of DryRun: only the first matched slot is reported.
DryRunReportsFirst ==
    \E out \in on_slot_detected(RM, aggro_range, TRUE, TRUE, now) :
        /\ FilterAndDetect(out)
        /\ filtered' # << >>
        /\ config.dry_run
        /\ log' = (log \o DetectEvents(frame')) \o <<Ev("send", 1, "would book")>>
        /\ booked' = TRUE
        /\ pc' = "dry_run_done"
        /\ UNCHANGED <<config, all_manual_bookings, all_slots, aggro_range, now,
                       iterations, cycle_counter, backoff_multiplier, slot_i,
                       booked_slots, recheck_i>>

\* Lines 208-247: matches were found and dry_run is set: one message per
\* slot, then "break" leaves the polling loop.
DryRun ==
    \E out \in on_slot_detected(RM, aggro_range, TRUE, TRUE, now) :
        /\ FilterAndDetect(out)
        /\ filtered' # << >>
        /\ config.dry_run
        /\ log' = (log \o DetectEvents(frame'))
                    \o [k \in 1..Len(filtered') |-> Ev("send", k, "would book")]
        /\ booked' = TRUE
        /\ pc' = "dry_run_done"
        /\ UNCHANGED <<config, all_manual_bookings, all_slots, aggro_range, now,
                       iterations, cycle_counter, backoff_multiplier, slot_i,
                       booked_slots, recheck_i>>

\* Lines 208-250: matches were found: the reservation loop starts.
StartBooking ==
    \E out \in on_slot_detected(RM, aggro_range, TRUE, TRUE, now) :
        /\ FilterAndDetect(out)
        /\ filtered' # << >>
        /\ ~config.dry_run
        /\ log' = log \o DetectEvents(frame')
        /\ booked' = FALSE
        /\ booked_slots' = << >>
        /\ slot_i' = 1
        /\ pc' = "reserve"
        /\ UNCHANGED <<config, all_manual_bookings, all_slots, aggro_range, now,
                       iterations, cycle_counter, backoff_multiplier, recheck_i>>

\* A faulty variant of AfterAttempt: a reserved slot ends the loop.
AfterAttemptStopsOnSuccess(result) ==
    IF result \in {"no_change", "success"} \/ slot_i = Len(filtered)
    THEN /\ pc' = "after_reserve" /\ slot_i' = slot_i
    ELSE /\ pc' = "reserve" /\ slot_i' = slot_i + 1

\* A faulty variant of AfterAttempt: an alert or an error ends the loop.
AfterAttemptStopsOnFailure(result) ==
    IF result \in {"no_change", "alert", "error"} \/ slot_i = Len(filtered)
    THEN /\ pc' = "after_reserve" /\ slot_i' = slot_i
    ELSE /\ pc' = "reserve" /\ slot_i' = slot_i + 1

\* A faulty variant of AfterAttempt: no_change does not end the loop.
AfterAttemptNoBreak(result) ==
    IF slot_i = Len(filtered)
    THEN /\ pc' = "after_reserve" /\ slot_i' = slot_i
    ELSE /\ pc' = "reserve" /\ slot_i' = slot_i + 1

\* Where "for slot in filtered" goes after the slot at slot_i: the next
\* slot, or the end of the loop after the last slot and after "break".
AfterAttempt(result) ==
    IF result = "no_change" \/ slot_i = Len(filtered)
    THEN /\ pc' = "after_reserve" /\ slot_i' = slot_i
    ELSE /\ pc' = "reserve" /\ slot_i' = slot_i + 1

\* Lines 251-280: one pass of "for slot in filtered".
ReserveSlot ==
    /\ pc = "reserve"
    /\ \E result \in Outcomes :
        /\ AfterAttempt(result)
        /\ LET tried == <<Ev("send", slot_i, "trying"), Ev("reserve_slot", slot_i, result)>>
           IN  CASE result = "success" ->
                      /\ booked_slots' = Append(booked_slots, filtered[slot_i])
                      /\ IF config.auto_book
                         THEN \E ok \in BOOLEAN :
                                log' = (log \o tried) \o
                                       <<Ev("send", slot_i, "reserved"),
                                         Ev("confirm_booking", slot_i,
                                            IF ok THEN "confirmed" ELSE "failed"),
                                         Ev("send", slot_i,
                                            IF ok THEN "auto confirmed" ELSE "confirm manually")>>
                         ELSE log' = (log \o tried) \o <<Ev("send", slot_i, "reserved")>>
                 [] result = "alert" ->
                      /\ booked_slots' = booked_slots
                      /\ log' = (log \o tried) \o <<Ev("send", slot_i, "alert")>>
                 [] OTHER ->
                      /\ booked_slots' = booked_slots
                      /\ log' = log \o tried
    /\ UNCHANGED <<config, all_manual_bookings, all_slots, filtered, frame,
                   probe_mode, aggressive_cycles, probe_start, aggro_range, now,
                   current_mode, last_call, iterations, cycle_counter,
                   slot_found_counter, backoff_multiplier, booked, recheck_i>>

\* Lines 282-285: slots were reserved and nobody confirms them for the
\* user: the loop waits 3 minutes.
ConfirmationWait ==
    /\ pc = "after_reserve"
    /\ booked_slots # << >> /\ ~(config.dry_run \/ config.auto_book)
    /\ log' = log \o <<Ev("send", 0, "please confirm"), Ev("sleep", 0, 180)>>
    /\ now' = now + 180
    /\ recheck_i' = 1
    /\ pc' = "recheck"
    /\ UNCHANGED <<config, all_manual_bookings, all_slots, filtered, frame,
                   probe_mode, aggressive_cycles, probe_start, aggro_range,
                   current_mode, last_call, iterations, cycle_counter,
                   slot_found_counter, backoff_multiplier, slot_i, booked_slots,
                   booked>>

\* Line 282, condition false.
NoConfirmation ==
    /\ pc = "after_reserve"
    /\ ~(booked_slots # << >> /\ ~(config.dry_run \/ config.auto_book))
    /\ pc' = "end_cycle"
    /\ UNCHANGED <<config, all_manual_bookings, all_slots, filtered, frame,
                   probe_mode, aggressive_cycles, probe_start, aggro_range, now,
                   current_mode, last_call, loopvars>>

\* The booking a reserved slot becomes on the dashboard.
BookingOf(slot) == [date |-> DateStr(slot.date), session |-> slot.session]

\* What get_all_manual_bookings returns after slot was seen confirmed: the
\* dashboard's rows, or [] when the query fails or lands on the login page.
Updated(slot) ==
    {<< >>,
     IF \E k \in 1..Len(all_manual_bookings) : all_manual_bookings[k] = BookingOf(slot)
     THEN all_manual_bookings
     ELSE Append(all_manual_bookings, BookingOf(slot))}

\* Why get_all_manual_bookings returned what it did: rows were read, or the
\* query was redirected to the login page (booking_checker.py:37-39), or
\* it failed or found no row (lines 103-110); the last two return [].
QueryCauses(updated) ==
    IF updated # << >> THEN {"rows"} ELSE {"login page", "nothing"}

\* A faulty variant of Recheck: the known bookings are read anew after a
\* failed re-check too.
RecheckRefreshesAlways ==
    /\ pc = "recheck"
    /\ recheck_i <= Len(booked_slots)
    /\ \E confirmed \in BOOLEAN :
         /\ booked' = (booked \/ confirmed)
         /\ \E updated \in Updated(booked_slots[recheck_i]) :
              /\ all_manual_bookings' =
                     IF updated # << >> THEN updated ELSE all_manual_bookings
              /\ \E cause \in QueryCauses(updated) :
                   log' = log \o <<Ev("is_slot_confirmed", recheck_i,
                                      IF confirmed THEN "confirmed" ELSE "not confirmed"),
                                   Ev("send", recheck_i, "re-checked"),
                                   Ev("get_all_manual_bookings", recheck_i, cause)>>
    /\ recheck_i' = recheck_i + 1
    /\ UNCHANGED <<pc, config, all_slots, filtered, frame, probe_mode,
                   aggressive_cycles, probe_start, aggro_range, now, current_mode,
                   last_call, iterations, cycle_counter, slot_found_counter,
                   backoff_multiplier, slot_i, booked_slots>>

\* A faulty variant of Recheck: whatever the bookings query returned
\* becomes the known bookings.
RecheckTakesEmpty ==
    /\ pc = "recheck"
    /\ recheck_i <= Len(booked_slots)
    /\ \E confirmed \in BOOLEAN :
         IF confirmed
         THEN /\ booked' = TRUE
              /\ \E updated \in Updated(booked_slots[recheck_i]) :
                   /\ all_manual_bookings' = updated
                   /\ \E cause \in QueryCauses(updated) :
                        log' = log \o <<Ev("is_slot_confirmed", recheck_i, "confirmed"),
                                        Ev("send", recheck_i, "booking confirmed"),
                                        Ev("get_all_manual_bookings", recheck_i, cause)>>
         ELSE /\ booked' = booked
              /\ all_manual_bookings' = all_manual_bookings
              /\ log' = log \o <<Ev("is_slot_confirmed", recheck_i, "not confirmed"),
                                 Ev("send", recheck_i, "not confirmed")>>
    /\ recheck_i' = recheck_i + 1
    /\ UNCHANGED <<pc, config, all_slots, filtered, frame, probe_mode,
                   aggressive_cycles, probe_start, aggro_range, now, current_mode,
                   last_call, iterations, cycle_counter, slot_found_counter,
                   backoff_multiplier, slot_i, booked_slots>>

\* Lines 289-307: one pass of "for slot in booked_slots".
Recheck ==
    /\ pc = "recheck"
    /\ recheck_i <= Len(booked_slots)
    /\ \E confirmed \in BOOLEAN :
         IF confirmed
         THEN /\ booked' = TRUE
              /\ \E updated \in Updated(booked_slots[recheck_i]) :
                   /\ all_manual_bookings' =
                          IF updated # << >> THEN updated ELSE all_manual_bookings
                   /\ \E cause \in QueryCauses(updated) :
                        log' = log \o <<Ev("is_slot_confirmed", recheck_i, "confirmed"),
                                        Ev("send", recheck_i, "booking confirmed"),
                                        Ev("get_all_manual_bookings", recheck_i, cause)>>
         ELSE /\ booked' = booked
              /\ all_manual_bookings' = all_manual_bookings
              /\ log' = log \o <<Ev("is_slot_confirmed", recheck_i, "not confirmed"),
                                 Ev("send", recheck_i, "not confirmed")>>
    /\ recheck_i' = recheck_i + 1
    /\ UNCHANGED <<pc, config, all_slots, filtered, frame, probe_mode,
                   aggressive_cycles, probe_start, aggro_range, now, current_mode,
                   last_call, iterations, cycle_counter, slot_found_counter,
                   backoff_multiplier, slot_i, booked_slots>>

\* A faulty variant of ConfirmationDone: the re-check loop is left after
\* its first pass.
ConfirmationDoneAfterFirst ==
    /\ pc = "recheck"
    /\ recheck_i > 1
    /\ log' = Append(log, Ev("open_practical_safe", 0, ""))
    /\ pc' = "end_cycle"
    /\ UNCHANGED <<config, all_manual_bookings, all_slots, filtered, frame,
                   probe_mode, aggressive_cycles, probe_start, aggro_range, now,
                   current_mode, last_call, iterations, cycle_counter,
                   slot_found_counter, backoff_multiplier, slot_i, booked_slots,
                   booked, recheck_i>>

\* Line 309: open_practical_safe after the last re-check.
ConfirmationDone ==
    /\ pc = "recheck"
    /\ recheck_i > Len(booked_slots)
    /\ log' = Append(log, Ev("open_practical_safe", 0, ""))
    /\ pc' = "end_cycle"
    /\ UNCHANGED <<config, all_manual_bookings, all_slots, filtered, frame,
                   probe_mode, aggressive_cycles, probe_start, aggro_range, now,
                   current_mode, last_call, iterations, cycle_counter,
                   slot_found_counter, backoff_multiplier, slot_i, booked_slots,
                   booked, recheck_i>>

\* Lines 310-316 with booked false: the iteration sleeps and is counted.
EndCycleNotBooked ==
    /\ pc = "end_cycle"
    /\ ~booked
    /\ SleepRandom(RM, << >>)
    /\ cycle_counter' = cycle_counter + 1
    /\ pc' = "loop_top"
    /\ UNCHANGED <<config, all_manual_bookings, all_slots, filtered, frame,
                   probe_mode, aggressive_cycles, probe_start, aggro_range,
                   current_mode, last_call, iterations, slot_found_counter,
                   backoff_multiplier, slot_i, booked_slots, booked, recheck_i>>

\* Line 310 with booked true: the next iteration starts at once.
EndCycleBooked ==
    /\ pc = "end_cycle"
    /\ booked
    /\ pc' = "loop_top"
    /\ UNCHANGED <<config, all_manual_bookings, all_slots, filtered, frame,
                   probe_mode, aggressive_cycles, probe_start, aggro_range, now,
                   current_mode, last_call, loopvars>>

Next ==
    \/ CheckCommands
    \/ Refresh
    \/ RefreshRaises
    \/ EmptySnapshot
    \/ FilterRaises
    \/ NoMatch
    \/ DryRun
    \/ StartBooking
    \/ ReserveSlot
    \/ ConfirmationWait
    \/ NoConfirmation
    \/ Recheck
    \/ ConfirmationDone
    \/ EndCycleNotBooked
    \/ EndCycleBooked

Spec == Init /\ [][Next]_vars

\* Line 164, "while True": the loop goes on after the cycles that were
\* counted. The counters of the statistics and the clock do not steer the
\* loop; they are counted anew from here, with the scheduler, the known
\* bookings and the configuration as the loop left them.
RunOn ==
    /\ pc = "loop_top"
    /\ iterations = MaxCycles
    /\ iterations' = 0
    /\ cycle_counter' = 0
    /\ slot_found_counter' = 0
    /\ now' = 0
    /\ probe_start' = IF probe_start = None THEN None ELSE 0
    /\ log' = << >>
    /\ UNCHANGED <<pc, config, all_manual_bookings, all_slots, filtered, frame,
                   probe_mode, aggressive_cycles, aggro_range, current_mode,
                   last_call, backoff_multiplier, slot_i, booked_slots, booked,
                   recheck_i>>

LiveNext == Next \/ RunOn

\* The loop as it runs without end: no step of main() waits for another
\* process, so a step that can be taken is taken.
LiveSpec == Init /\ [][LiveNext]_vars /\ WF_vars(LiveNext)

----------------------------------------------------------------------------
(* BotSpec: TelegramBot.check_commands under arriving updates,
   src/telegram.py *)

\* How many updates arrive after the bot was built.
MaxUpdates == 3

\* self.chat_id and another chat
ChatId == "4711"

OtherChat == "4712"

\* The texts of the messages: commands as typed, a command with blanks and
\* capitals around it, a text that is no command and one that only starts
\* like a command.
Texts == {"/stop", " /Status ", "/screen", "/STATS", "hello", "/stop now"}

\* text.strip().lower()
StripLower(text) ==
    CASE text = " /Status "  -> "/status"
      [] text = "/STATS"     -> "/stats"
      [] OTHER               -> text

\* The if/elif chain of lines 62-69: the value returned for a text, None
\* when no branch is taken.
CommandOf(text) ==
    CASE text = "/stop"   -> "stop"
      [] text = "/status" -> "status"
      [] text = "/screen" -> "screen"
      [] text = "/stats"  -> "stats"
      [] OTHER            -> "none"

\* One entry of resp["result"]: a text message, a message without the key
\* "text" (a photo) or an update without the key "message" (an edited
\* message).
Updates ==
    [kind : {"text"}, chat : {ChatId}, text : Texts]
      \cup [kind : {"text"}, chat : {OtherChat}, text : {"/stop", "hello"}]
      \cup [kind : {"no text"}, chat : {ChatId, OtherChat}, text : {""}]
      \cup [kind : {"no message"}, chat : {""}, text : {""}]

\* The bot after __init__ and the server: update k of the server has
\* update_id k; returned lists the update ids and the values of the calls
\* that returned a command, examined the update ids the loop of line 55 has
\* looked at; ret and cause tell how the last call ended and batch how
\* many updates its answer held.
NewBot(last) ==
    [updates |-> << >>, last_checked_update_id |-> last, returned |-> << >>,
     examined |-> {}, ret |-> "none", cause |-> "init", batch |-> 0]

\* getUpdates?offset=...: the updates from the offset on, with their ids.
GetUpdates(updates, offset) ==
    [k \in 1..(Len(updates) - (IF offset < 1 THEN 0 ELSE offset - 1)) |->
        LET update_id == k + (IF offset < 1 THEN 0 ELSE offset - 1)
        IN  [update_id |-> update_id, update |-> updates[update_id]]]

\* Lines 55-69, "for update in resp['result']" from entry i on: the bot
\* when the call returns.
RECURSIVE ScanUpdates(_, _, _)
ScanUpdates(bot, result, i) ==
    IF i > Len(result) THEN [bot EXCEPT !.cause = "end of batch"]
    ELSE LET update == result[i].update
             b      == [bot EXCEPT !.last_checked_update_id = result[i].update_id,
                                   !.examined = @ \cup {result[i].update_id}]
         IN  IF update.kind = "no message" THEN [b EXCEPT !.cause = "KeyError"]
             ELSE IF update.chat # ChatId THEN ScanUpdates(b, result, i + 1)
             ELSE IF update.kind = "no text" THEN [b EXCEPT !.cause = "KeyError"]
             ELSE IF CommandOf(StripLower(update.text)) # "none"
             THEN [b EXCEPT !.ret = CommandOf(StripLower(update.text)),
                            !.cause = "command",
                            !.returned = Append(@, [update_id |-> result[i].update_id,
                                                    cmd |-> CommandOf(StripLower(update.text))])]
             ELSE ScanUpdates(b, result, i + 1)

\* A faulty variant of check_commands: the offset is the stored id.
check_commands_from_last_id(bot) ==
    LET offset == IF bot.last_checked_update_id # None
                  THEN bot.last_checked_update_id ELSE 0
        result == GetUpdates(bot.updates, offset)
    IN  ScanUpdates([bot EXCEPT !.ret = "none", !.batch = Len(result)], result, 1)

\* check_commands when the request is answered with a result.
check_commands(bot) ==
    LET offset == IF bot.last_checked_update_id # None
                  THEN bot.last_checked_update_id + 1 ELSE 0
        result == GetUpdates(bot.updates, offset)
    IN  ScanUpdates([bot EXCEPT !.ret = "none", !.batch = Len(result)], result, 1)

\* The other variables while the bot alone is looked at.
BotIdle ==
    /\ config = [one_slot_per_day |-> FALSE, excluded_dates |-> {},
                 non_peak_sessions |-> DefaultNonPeak, allowed_sessions |-> << >>,
                 included_dates |-> << >>, auto_book |-> FALSE, dry_run |-> FALSE]
    /\ all_manual_bookings = << >> /\ all_slots = << >> /\ filtered = << >>

\* __init__ left no id (nothing was pending) or the id of an update that
\* came before the bot was built.
BotInit ==
    /\ pc = "bot"
    /\ frame \in {NewBot(None), NewBot(0)}
    /\ BotIdle
    /\ SchedIdle
    /\ LoopIdle

BotFrame ==
    UNCHANGED <<pc, config, all_manual_bookings, all_slots, filtered, probe_mode,
                aggressive_cycles, probe_start, aggro_range, now, current_mode,
                last_call, loopvars>>

\* The same for a machine that moves pc.
BotFrameButPc ==
    UNCHANGED <<config, all_manual_bookings, all_slots, filtered, probe_mode,
                aggressive_cycles, probe_start, aggro_range, now, current_mode,
                last_call, loopvars>>

\* Somebody sends the bot an update.
UpdateArrives ==
    /\ pc = "bot"
    /\ Len(frame.updates) < MaxUpdates
    /\ \E update \in Updates : frame' = [frame EXCEPT !.updates = Append(@, update)]
    /\ BotFrame

\* Lines 46-74 when getUpdates answers with a result.
CheckCommandsCall ==
    /\ pc = "bot"
    /\ frame' = check_commands(frame)
    /\ BotFrame

\* Lines 50-53 and 71-73: the request raises or the answer has no
\* "result"; None is returned and the bot is as before.
CheckCommandsFails ==
    /\ pc = "bot"
    /\ \E cause \in {"request failed", "no result"} :
         frame' = [frame EXCEPT !.ret = "none", !.cause = cause, !.batch = 0]
    /\ BotFrame

BotNext == UpdateArrives \/ CheckCommandsCall \/ CheckCommandsFails

BotSpec == BotInit /\ [][BotNext]_vars

----------------------------------------------------------------------------
(* HandlerSpec: LessonHandler.select_course and
   wait_for_full_booking_msg_or_table, src/lesson_handler.py *)

\* How deep the calls of wait_for_full_booking_msg_or_table may nest
\* before the page answers.
MaxDepth == 2

\* max_retries = 3 of select_course
max_retries == 3

\* timeout=6.5 of the first wait and timeout=15 of the wait after a reload,
\* in tenths of a second.
FirstTimeout == 65

RetryTimeout == 150

\* How one attempt of select_course may go: the dropdown is not in the DOM
\* after 20 polls, it is hidden or disabled, the reload of the page after
\* one of these raises (only before the last attempt), the selection
\* script returns false or raises, or it reports success.
AttemptOutcomes(attempt) ==
    {"dropdown not found", "dropdown not interactive", "script returned false",
     "script raised", "selected"}
      \cup (IF attempt < max_retries THEN {"reload raised"} ELSE {})

\* A faulty variant of AfterSelectAttempt: after the last failed attempt
\* the loop runs out and the method returns.
AfterSelectAttemptRunsOut(attempt, outcome) ==
    IF outcome = "selected" THEN "return"
    ELSE IF attempt = max_retries THEN "return"
    ELSE "retry"

\* What select_course does after an attempt: lines 134-139 return, lines
\* 141-147 raise after the last attempt, lines 89-102 and 148-150 go on to
\* the next one.
AfterSelectAttempt(attempt, outcome) ==
    IF outcome = "selected" THEN "return"
    ELSE IF attempt = max_retries THEN "raise"
    ELSE "retry"

\* The handler before a call: caller is who called select_course, attempt
\* the running attempt and outcomes how the attempts of the call went;
\* depth counts the calls of the wait that are on the stack below the
\* running one, result is what the outermost call gave its caller.
NewHandler ==
    [caller |-> "none", attempt |-> 0, outcomes |-> << >>, select |-> "none",
     depth |-> 0, timeout |-> 0, result |-> "none"]

HandlerInit ==
    /\ pc = "handler_idle"
    /\ frame = NewHandler
    /\ BotIdle
    /\ SchedIdle
    /\ LoopIdle

\* main.py:203: await parser.select_course()
CallSelectCourse ==
    /\ pc = "handler_idle"
    /\ frame' = [frame EXCEPT !.caller = "main", !.attempt = 1, !.select = "running"]
    /\ pc' = "select_course"
    /\ BotFrameButPc

\* One pass of "for attempt in range(1, max_retries + 1)".
SelectAttempt ==
    /\ pc = "select_course"
    /\ \E outcome \in AttemptOutcomes(frame.attempt) :
        LET next == AfterSelectAttempt(frame.attempt, outcome)
            fr   == [frame EXCEPT !.outcomes = Append(@, outcome)]
        IN  CASE next = "retry" ->
                   /\ frame' = [fr EXCEPT !.attempt = @ + 1]
                   /\ pc' = pc
              [] next = "raise" ->
                   /\ frame' = [fr EXCEPT !.select = "raised", !.result = "raised"]
                   /\ pc' = "handler_done"
              [] next = "return" /\ frame.caller = "main" ->
                   /\ frame' = [fr EXCEPT !.select = "returned", !.result = "returned"]
                   /\ pc' = "handler_done"
              [] next = "return" /\ frame.caller = "wait" ->
                   /\ frame' = [fr EXCEPT !.select = "returned", !.depth = @ + 1,
                                          !.timeout = RetryTimeout]
                   /\ pc' = "wait"
    /\ BotFrameButPc

\* lesson_handler.py:239: get_slot_statuses calls the wait with its
\* default timeout.
CallWait ==
    /\ pc = "handler_idle"
    /\ frame' = [frame EXCEPT !.timeout = FirstTimeout]
    /\ pc' = "wait"
    /\ BotFrameButPc

\* Lines 180-201: a poll sees the full-booking message or the slot table.
WaitShows ==
    /\ pc = "wait"
    /\ \E status \in {"full_msg", "table"} :
         frame' = [frame EXCEPT !.result = IF status = "full_msg" THEN "True" ELSE "False"]
    /\ pc' = "handler_done"
    /\ BotFrameButPc

\* Lines 203-223: the polls run out of time; the page is reloaded, the
\* course is selected again and the wait is called again.  A reload or a
\* Cloudflare check that raises ends the call.
WaitTimesOut ==
    /\ pc = "wait"
    /\ frame.depth < MaxDepth
    /\ \E reload \in {"ok", "raised"} :
         IF reload = "raised"
         THEN /\ frame' = [frame EXCEPT !.result = "raised"]
              /\ pc' = "handler_done"
         ELSE /\ frame' = [frame EXCEPT !.caller = "wait", !.attempt = 1,
                                        !.outcomes = << >>, !.select = "running"]
              /\ pc' = "select_course"
    /\ BotFrameButPc

HandlerNext == CallSelectCourse \/ SelectAttempt \/ CallWait \/ WaitShows \/ WaitTimesOut

HandlerSpec == HandlerInit /\ [][HandlerNext]_vars

----------------------------------------------------------------------------
(* Properties of the filter, checked under FilterSpec *)

FilterReturned == pc = "filter_returned"

FilterRaised == pc = "filter_raised"

SlotPositions == 1..Len(all_slots)

\* The slot at input position i was appended to the result.
IsMatched(i) == \E k \in 1..Len(frame.positions) : frame.positions[k] = i

SlotDate(i) == DateStr(all_slots[i].date)

SlotSession(i) == all_slots[i].session

SlotWeekday(i) == Weekday(all_slots[i].dayname)

\* The known bookings hold a booking of date d.
BookedOn(d) == \E k \in 1..Len(all_manual_bookings) : all_manual_bookings[k].date = d

\* The per-day cap rejects position i: one_slot_per_day and an earlier
\* position of the same date was matched.
CapHits(i) ==
    /\ config.one_slot_per_day
    /\ \E j \in 1..(i - 1) : IsMatched(j) /\ SlotDate(j) = SlotDate(i)

WeekdayAllows(i) ==
    /\ SlotWeekday(i) \in DOMAIN config.allowed_sessions
    /\ SlotSession(i) \in config.allowed_sessions[SlotWeekday(i)]

HasIncludedEntry(i) == SlotDate(i) \in DOMAIN config.included_dates

InIncludedSet(i) ==
    HasIncludedEntry(i) /\ SlotSession(i) \in config.included_dates[SlotDate(i)]

\* q is a subsequence of s: q embeds in s in order.
RECURSIVE IsSubsequence(_, _)
IsSubsequence(q, s) ==
    IF q = << >> THEN TRUE
    ELSE IF s = << >> THEN FALSE
    ELSE IF Head(q) = Head(s) THEN IsSubsequence(Tail(q), Tail(s))
    ELSE IsSubsequence(q, Tail(s))

\* The known bookings hold the slot at position i itself (the page does not
\* offer a cell the user holds, unless the known bookings are stale).
HeldByUser(i) ==
    \E k \in 1..Len(all_manual_bookings) :
        /\ all_manual_bookings[k].date = SlotDate(i)
        /\ all_manual_bookings[k].session = SlotSession(i)

\* C2: a slot whose date has an existing booking at session b is matched
\* only if its session is earlier than b and non-peak, for every booking of
\* that date in the known bookings (slots the user holds left aside).
C2_BookedDateMatchOnlyUpgrade ==
    FilterReturned =>
        \A i \in SlotPositions : \A k \in 1..Len(all_manual_bookings) :
            ( /\ all_manual_bookings[k].date = SlotDate(i)
              /\ ~HeldByUser(i)
              /\ IsMatched(i) ) =>
                /\ SlotSession(i) < all_manual_bookings[k].session
                /\ SlotSession(i) \in config.non_peak_sessions

\* C3: the list returned by the filter is a subsequence of the slot list:
\* only slots of the input, in the input's order, none more often than it
\* occurs there.
C3_ResultIsSubsequence ==
    FilterReturned => IsSubsequence(filtered, all_slots)

C3_Witness ==
    /\ FilterReturned
    /\ Len(all_slots) = 2 /\ all_slots[1] # all_slots[2]
    /\ filtered = all_slots

\* C4: with one_slot_per_day the returned list holds at most one slot per
\* date, upgrade matches and ordinary matches counted together.
C4_OneSlotPerDay ==
    (FilterReturned /\ config.one_slot_per_day) =>
        \A k1, k2 \in 1..Len(filtered) :
            k1 # k2 => DateStr(filtered[k1].date) # DateStr(filtered[k2].date)

\* Two slots of a booked date that both qualify as upgrades: the cap keeps
\* the first only.
C4_Witness ==
    /\ FilterReturned /\ config.one_slot_per_day
    /\ Len(all_slots) = 2 /\ SlotDate(1) = SlotDate(2)
    /\ BookedOn(SlotDate(1))
    /\ Len(frame.sent) = 1 /\ filtered = <<all_slots[1]>>
    /\ Len(filter_practical_slots(all_slots,
                                  [config EXCEPT !.one_slot_per_day = FALSE],
                                  all_manual_bookings).filtered) = 2

\* C5: a slot not rejected by the cap, on a date without booking, whose date
\* is excluded and also included with the slot's session listed, is matched.
C5_InclusionOverridesExclusion ==
    FilterReturned =>
        \A i \in SlotPositions :
            ( /\ ~CapHits(i)
              /\ ~BookedOn(SlotDate(i))
              /\ SlotDate(i) \in config.excluded_dates
              /\ InIncludedSet(i) ) => IsMatched(i)

C5_Witness ==
    /\ FilterReturned
    /\ \E i \in SlotPositions :
          /\ ~CapHits(i) /\ ~BookedOn(SlotDate(i))
          /\ SlotDate(i) \in config.excluded_dates
          /\ InIncludedSet(i)
          /\ ~WeekdayAllows(i)
          /\ IsMatched(i)

\* C6: a slot whose date has an included-date set that does not hold its
\* session goes on to the excluded-date and weekday rules, and is matched
\* when the date is not excluded and the weekday allows the session.
C6_IncludedRuleNeverRejects ==
    FilterReturned =>
        \A i \in SlotPositions :
            ( /\ ~CapHits(i)
              /\ ~BookedOn(SlotDate(i))
              /\ HasIncludedEntry(i) /\ ~InIncludedSet(i)
              /\ SlotDate(i) \notin config.excluded_dates
              /\ WeekdayAllows(i) ) => IsMatched(i)

\* C7: without cap hit, booking and included-date entry, a slot is matched
\* exactly when its date is not excluded and its weekday's configured set
\* holds its session.
C7_ExcludedAndWeekdayRules ==
    FilterReturned =>
        \A i \in SlotPositions :
            ( /\ ~CapHits(i)
              /\ ~BookedOn(SlotDate(i))
              /\ ~HasIncludedEntry(i) ) =>
                (IsMatched(i) <=>
                    (SlotDate(i) \notin config.excluded_dates /\ WeekdayAllows(i)))

\* One slot matched by the weekday rule and one rejected by the excluded
\* date, in the same call.
C7_Witness ==
    /\ FilterReturned
    /\ \E i, j \in SlotPositions :
          /\ ~CapHits(i) /\ ~BookedOn(SlotDate(i)) /\ ~HasIncludedEntry(i)
          /\ IsMatched(i)
          /\ ~CapHits(j) /\ ~BookedOn(SlotDate(j)) /\ ~HasIncludedEntry(j)
          /\ SlotDate(j) \in config.excluded_dates /\ WeekdayAllows(j)
          /\ ~IsMatched(j)

\* The positions of q, in order, that satisfy Test.
MatchedOnBookedDates ==
    SelectSeq(frame.positions, LAMBDA i : BookedOn(SlotDate(i)))

\* C8: in one call one notification is sent for each slot matched on a
\* booked date, in order and describing that slot, and none for any other
\* slot; the number sent is the number of returned slots on booked dates.
C8_OneNotificationPerUpgrade ==
    (FilterReturned \/ FilterRaised) =>
        /\ frame.notified = MatchedOnBookedDates
        /\ Len(frame.sent) = Len(frame.notified)
        /\ \A k \in 1..Len(frame.sent) :
              /\ frame.sent[k].date = SlotDate(frame.notified[k])
              /\ frame.sent[k].new = SlotSession(frame.notified[k])
        /\ FilterReturned =>
              Len(frame.sent) =
                  Cardinality({k \in 1..Len(filtered) :
                                  BookedOn(DateStr(filtered[k].date))})

\* An upgrade match and an ordinary match in one call: one notification.
C8_Witness ==
    /\ FilterReturned
    /\ Len(filtered) = 2 /\ Len(frame.sent) = 1
    /\ frame.notified = <<2>>

\* C9: a slot with a malformed date is dropped on its own: the filter
\* returns what it returns for the input without the malformed slots.
WellFormed(slots) == SelectSeq(slots, LAMBDA x : DateStr(x.date) # "ValueError")

C9_MalformedSlotDropped ==
    (FilterReturned \/ FilterRaised) =>
        /\ FilterReturned
        /\ filtered = filter_practical_slots(WellFormed(all_slots), config,
                                             all_manual_bookings).filtered

----------------------------------------------------------------------------
(* Properties of the polling loop, checked under Spec *)

\* The reservation attempts of the current iteration, in order.
Attempts == SelectSeq(log, LAMBDA e : e.op = "reserve_slot")

\* The reservation loop of the current iteration is over.
ReserveLoopOver == pc \in {"after_reserve", "recheck", "end_cycle"}

\* C1: in every iteration the reservation attempts are a prefix of the
\* filtered list: the k-th attempt is on the k-th candidate, no attempt
\* follows one that returned no_change, and the loop stops short of the
\* last candidate only after a no_change of this same iteration.
C1_AttemptsArePrefixOfFiltered ==
    /\ Len(Attempts) > 0 => Len(Attempts) <= Len(filtered)
    /\ \A k \in 1..Len(Attempts) : Attempts[k].slot = k
    /\ \A k \in 1..(Len(Attempts) - 1) : Attempts[k].res # "no_change"
    /\ pc = "reserve" => slot_i = Len(Attempts) + 1
    /\ ReserveLoopOver =>
          \/ Len(Attempts) = Len(filtered)
          \/ Attempts[Len(Attempts)].res = "no_change"

\* Three candidates, no_change on the second, in the second iteration: the
\* third is not attempted.
C1_Witness ==
    /\ iterations = 2
    /\ ReserveLoopOver
    /\ Len(filtered) = 3
    /\ Len(Attempts) = 2
    /\ Attempts[1].res = "success"
    /\ Attempts[2].res = "no_change"

----------------------------------------------------------------------------
(* Properties of RefreshMode, checked under SchedSpec *)

\* C10: right after on_slot_detected with a non-empty filtered list, for a
\* range whose minimum is at least 1, the scheduler is Aggressive with
\* aggressive_cycles > 0, Probe is cleared and the call returned aggressive.
C10_FilteredMatchEntersAggressive ==
    ( /\ last_call.name = "on_slot_detected"
      /\ last_call.filtered_slots_found
      /\ aggro_range[1] >= 1 ) =>
        /\ aggressive_cycles > 0
        /\ probe_mode = FALSE
        /\ probe_start = None
        /\ current_mode = "aggressive"

\* The call found the scheduler in Probe with no aggressive cycles left.
C10_Witness ==
    /\ last_call.name = "on_slot_detected"
    /\ last_call.filtered_slots_found
    /\ aggro_range[1] >= 1
    /\ last_call.before.probe_mode /\ last_call.before.aggressive_cycles = 0
    /\ aggressive_cycles > 0 /\ probe_mode = FALSE /\ probe_start = None

\* The last call made on the object.
CalledOnSlotDetected == last_call.name = "on_slot_detected"

CalledTick == last_call.name = "tick"

\* on_slot_detected was called with a non-empty filtered list.
CalledWithMatches == CalledOnSlotDetected /\ last_call.filtered_slots_found

\* on_slot_detected was called with slots and an empty filtered list.
CalledWithSlotsOnly ==
    /\ CalledOnSlotDetected
    /\ last_call.slots_found
    /\ ~last_call.filtered_slots_found

\* C11: a call with filtered matches leaves a count of 4 or more as it is
\* and replaces a count below 4 by a value of [minAggro, maxAggro]; no
\* other call raises aggressive_cycles.
C11_RearmGuard ==
    /\ CalledWithMatches =>
          IF last_call.before.aggressive_cycles >= 4
          THEN aggressive_cycles = last_call.before.aggressive_cycles
          ELSE aggressive_cycles \in RandInt(aggro_range)
    /\ (CalledTick \/ (CalledOnSlotDetected /\ ~last_call.filtered_slots_found)) =>
          aggressive_cycles <= last_call.before.aggressive_cycles

\* A burst with 5 cycles left meets filtered matches and keeps its count.
C11_Witness ==
    /\ CalledWithMatches
    /\ last_call.before.aggressive_cycles = 5
    /\ aggressive_cycles = 5

\* C12: probe_mode goes from false to true only in an on_slot_detected call
\* with slots found, an empty filtered list and aggressive_cycles = 0.
C12_ProbeEnteredOnlyOnUnfilteredSlots ==
    ( /\ last_call.name # "init"
      /\ ~last_call.before.probe_mode
      /\ probe_mode ) =>
        /\ CalledWithSlotsOnly
        /\ last_call.before.aggressive_cycles = 0

\* Probe is entered after an earlier burst has run out.
C12_Witness ==
    /\ CalledWithSlotsOnly
    /\ ~last_call.before.probe_mode
    /\ probe_mode
    /\ probe_start = last_call.at
    /\ last_call.at > 0

\* C13: on_slot_detected with slots found, no filtered matches and the
\* scheduler not Aggressive returns probe, also when the scheduler was in
\* Probe before the call.
C13_UnfilteredSlotsReturnProbe ==
    ( /\ CalledWithSlotsOnly
      /\ ~in_aggressive(last_call.before) ) =>
        current_mode = "probe"

\* The effect of the last tick on Probe: it ends iff more than
\* probe_duration has elapsed since probe_start.
TickProbeEffect ==
    (CalledTick /\ last_call.before.probe_mode) =>
        IF last_call.at - last_call.before.probe_start > ProbeDuration
        THEN probe_mode = FALSE /\ probe_start = None
        ELSE probe_mode = TRUE /\ probe_start = last_call.before.probe_start

\* Probe has lasted longer than probe_duration.
ProbeExpired == probe_mode /\ now - probe_start > ProbeDuration

\* C14: a tick in Probe with now - probe_start > probe_duration leaves
\* Probe and clears probe_start, a tick with at most probe_duration elapsed
\* keeps both; while tick keeps being called an expired Probe ends.
C14_TickEndsExpiredProbe ==
    /\ []TickProbeEffect
    /\ (ProbeExpired ~> ~probe_mode)

\* A tick found Probe expired and ended it.
C14_Witness ==
    /\ CalledTick
    /\ last_call.before.probe_mode
    /\ last_call.at - last_call.before.probe_start > ProbeDuration
    /\ probe_mode = FALSE /\ probe_start = None

\* C15: tick lowers a positive aggressive_cycles by 1 and leaves 0 at 0, the
\* count is never negative, and a tick ends Aggressive iff it found the
\* count at 1; for a range whose minimum is at least 1 no other call ends
\* Aggressive.
C15_TickDecrementsToFloor ==
    /\ aggressive_cycles >= 0
    /\ CalledTick =>
          /\ aggressive_cycles =
                IF last_call.before.aggressive_cycles > 0
                THEN last_call.before.aggressive_cycles - 1
                ELSE 0
          /\ (in_aggressive(last_call.before) /\ ~in_aggressive(RM))
                <=> last_call.before.aggressive_cycles = 1
    /\ ( /\ last_call.name # "init"
         /\ aggro_range[1] >= 1
         /\ in_aggressive(last_call.before)
         /\ ~in_aggressive(RM) ) => CalledTick

\* The tick that takes the count from 1 to 0.
C15_Witness ==
    /\ CalledTick
    /\ last_call.before.aggressive_cycles = 1
    /\ aggressive_cycles = 0

\* C16: probe_start is set iff probe_mode is true.
C16_ProbeStartIffProbe == (probe_start # None) <=> probe_mode

\* A filtered match ends a Probe that had started after time 0: both
\* fields are cleared together.
C16_Witness ==
    /\ CalledWithMatches
    /\ last_call.before.probe_mode
    /\ last_call.before.probe_start > 0
    /\ probe_mode = FALSE
    /\ probe_start = None

CalledSleepRandom == last_call.name = "sleep_random"

\* Every object sleep_random can be given, reachable or not.
AnyRefreshMode ==
    [probe_mode : BOOLEAN, aggressive_cycles : 0..DefaultAggroRange[2],
     probe_start : {None, 0}]

\* The base range by mode, Aggressive asked first.
BaseRange(rm) ==
    CASE rm.aggressive_cycles > 0 -> <<2, 4>>
      [] rm.aggressive_cycles = 0 /\ rm.probe_mode -> <<5, 9>>
      [] OTHER -> <<13, 40>>

\* C19: the base sleep is in [2,4] if aggressive_cycles > 0, else in [5,9]
\* in Probe, else in [13,40]; the sleep is the base times the backoff
\* multiplier; the call leaves the scheduler as it found it.
C19_SleepByMode ==
    /\ \A rm \in AnyRefreshMode : SleepRange(rm) = BaseRange(rm)
    /\ CalledSleepRandom =>
          /\ \E base \in BaseRange(last_call.before)[1]..BaseRange(last_call.before)[2] :
                last_call.actual_delay = base * last_call.multiplier
          /\ RM = last_call.before

\* An aggressive sleep under a backoff multiplier of 2.
C19_Witness ==
    /\ CalledSleepRandom
    /\ in_aggressive(last_call.before)
    /\ last_call.multiplier = 2
    /\ last_call.actual_delay = 8

----------------------------------------------------------------------------
(* Properties of the polling loop and its scheduler, checked under Spec *)

\* The calls of refresh_mode.tick() of the current iteration.
Ticks == SelectSeq(log, LAMBDA e : e.op = "tick")

\* The current iteration has reached its sleep.
CycleSlept == log # << >> /\ log[Len(log)].op = "sleep_random"

\* C17: every cycle calls tick() exactly once, after the mode decision and
\* right before its sleep, whether the snapshot was empty, had no filtered
\* match or led to booking attempts.
C17_TickOncePerCycle ==
    CycleSlept =>
        /\ Len(Ticks) = 1
        /\ Len(log) >= 2
        /\ log[Len(log) - 1].op = "tick"

\* The events of the re-check that has just been made.
LastRecheck(lg) == SubSeq(lg, Len(lg) - 2, Len(lg))

\* C20: after startup the known bookings change only in a pass of the
\* re-check loop of a confirmation phase whose re-check returned confirmed
\* (never under auto_book, and in no other step of a cycle).
C20_BookingsChangeOnlyAfterConfirmedRecheck ==
    [][all_manual_bookings' # all_manual_bookings =>
          /\ pc = "recheck" /\ pc' = "recheck"
          /\ ~config.auto_book /\ ~config.dry_run
          /\ recheck_i \in 1..Len(booked_slots)
          /\ Len(log') = Len(log) + 3
          /\ LastRecheck(log')[1] = Ev("is_slot_confirmed", recheck_i, "confirmed")
          /\ LastRecheck(log')[3] = Ev("get_all_manual_bookings", recheck_i, "rows")]_vars

\* Of two reserved slots the first is re-checked unconfirmed and the second
\* confirmed: the known bookings have grown by the second.
C20_Witness ==
    /\ pc = "recheck"
    /\ Len(booked_slots) = 2
    /\ recheck_i = 3
    /\ \E k \in 1..Len(log) : log[k] = Ev("is_slot_confirmed", 1, "not confirmed")
    /\ log[Len(log)] = Ev("get_all_manual_bookings", 2, "rows")
    /\ \E k \in 1..Len(all_manual_bookings) :
          all_manual_bookings[k] = BookingOf(booked_slots[2])
    /\ \A k \in 1..Len(all_manual_bookings) :
          all_manual_bookings[k] # BookingOf(booked_slots[1])

----------------------------------------------------------------------------
(* Properties of the loop that runs on, checked under LiveSpec *)

\* A cycle has its snapshot.
CycleRuns == pc = "got_slots"

\* A cycle has found filtered matches and starts to reserve them.
MatchesFound == pc = "reserve"

\* C18: in a loop that keeps running cycles, if from some cycle on no cycle
\* finds filtered matches, an armed Aggressive mode ends after finitely many
\* cycles: the sleep leaves the aggressive range.
C18_AggressiveDecays ==
    (([]<>CycleRuns) /\ (<>[]~MatchesFound)) =>
        [](in_aggressive(RM) => <>(SleepRange(RM) # <<2, 4>>))

----------------------------------------------------------------------------
(* Frame of on_slot_detected, checked under SchedSpec *)

\* C30: on_slot_detected with no filtered matches changes no field when no
\* slots were found, or the scheduler is Aggressive, or it is in Probe
\* already: a running Probe keeps its probe_start.
C30_NoTransitionKeepsState ==
    ( /\ CalledOnSlotDetected
      /\ ~last_call.filtered_slots_found
      /\ \/ ~last_call.slots_found
         \/ in_aggressive(last_call.before)
         \/ last_call.before.probe_mode ) =>
        RM = last_call.before

\* Slots are sighted again while a Probe is running: its start stays.
C30_Witness ==
    /\ CalledWithSlotsOnly
    /\ last_call.before.probe_mode
    /\ last_call.at > last_call.before.probe_start
    /\ probe_mode
    /\ probe_start = last_call.before.probe_start

----------------------------------------------------------------------------
(* Properties of the booking phase of a cycle, checked under Spec *)

LogPositions == 1..Len(log)

\* The event at position p of the log is a reservation attempt that
\* returned res.
AttemptAt(p, res) == log[p].op = "reserve_slot" /\ log[p].res = res

\* The slots of filtered whose attempt in this iteration succeeded, in the
\* order of the attempts.
ReservedInOrder ==
    LET ok == SelectSeq(Attempts, LAMBDA e : e.res = "success")
    IN  [k \in 1..Len(ok) |-> filtered[ok[k].slot]]

\* The candidate after the k-th is attempted or is the next to be.
NextCandidateTried(k) ==
    k < Len(filtered) =>
        \/ pc = "reserve" /\ slot_i = k + 1
        \/ Len(Attempts) > k

\* The texts main() sends about the outcome of an attempt.
OutcomeTexts == {"reserved", "alert", "auto confirmed", "confirm manually"}

\* The confirmation waits of the current iteration.
Waits == SelectSeq(log, LAMBDA e : e.op = "sleep")

\* The re-checks of the current iteration of the slot at position b of
\* booked_slots, and the notifications of their results.
Rechecks(b) ==
    SelectSeq(log, LAMBDA e : e.op = "is_slot_confirmed" /\ e.slot = b)

RecheckNotices(b) ==
    SelectSeq(log, LAMBDA e : /\ e.op = "send" /\ e.slot = b
                              /\ e.res \in {"booking confirmed", "not confirmed"})

\* The booking phase of the current iteration is over.
BookingPhaseOver == pc = "end_cycle" \/ (pc = "loop_top" /\ log # << >>)

\* C21: a cycle waits for confirmation iff one of its reservations
\* succeeded and neither dry_run nor auto_book is set; it waits at most
\* once, after all its attempts, and then re-checks every booked slot once
\* and sends one confirmed/unconfirmed notification for each.
C21_ConfirmationWait ==
    /\ Len(Waits) <= 1
    /\ pc \in {"reserve", "after_reserve"} => Len(Waits) = 0
    /\ \A j \in LogPositions :
          log[j].op = "sleep" =>
              \A k \in (j + 1)..Len(log) : log[k].op # "reserve_slot"
    /\ (pc = "recheck" \/ BookingPhaseOver) =>
          ( Len(Waits) = 1 <=>
              /\ \E k \in 1..Len(Attempts) : Attempts[k].res = "success"
              /\ ~config.dry_run /\ ~config.auto_book )
    /\ Len(Waits) = 0 =>
          \A p \in LogPositions : log[p].op # "is_slot_confirmed"
    /\ (BookingPhaseOver /\ Len(Waits) = 1) =>
          /\ \A b \in 1..Len(booked_slots) :
                Len(Rechecks(b)) = 1 /\ Len(RecheckNotices(b)) = 1
          /\ \A p \in LogPositions :
                log[p].op = "is_slot_confirmed" =>
                    /\ log[p].slot \in 1..Len(booked_slots)
                    /\ \E j \in 1..(p - 1) : log[j].op = "sleep"

\* Two reserved slots, one wait, the first re-checked confirmed and the
\* second not.
C21_Witness ==
    /\ pc = "end_cycle"
    /\ Len(booked_slots) = 2
    /\ Len(Waits) = 1
    /\ Rechecks(1) = <<Ev("is_slot_confirmed", 1, "confirmed")>>
    /\ Rechecks(2) = <<Ev("is_slot_confirmed", 2, "not confirmed")>>

\* C22: a Success records the slot as booked for the cycle; with auto_book
\* confirm_booking is called once right after it, before the next
\* candidate, and without auto_book it is not called; the next candidate
\* is attempted whatever the confirmation returned.
C22_SuccessRecordsAndConfirms ==
    /\ Len(Attempts) > 0 => booked_slots = ReservedInOrder
    /\ \A p \in LogPositions :
          AttemptAt(p, "success") =>
              IF config.auto_book
              THEN /\ Len(log) >= p + 3
                   /\ log[p + 2].op = "confirm_booking"
                   /\ log[p + 2].slot = log[p].slot
                   /\ \A q \in LogPositions :
                         (log[q].op = "confirm_booking" /\ log[q].slot = log[p].slot)
                             => q = p + 2
              ELSE \A q \in LogPositions : log[q].op # "confirm_booking"
    /\ \A p \in LogPositions :
          log[p].op = "confirm_booking" => p > 2 /\ AttemptAt(p - 2, "success")
    /\ \A k \in 1..Len(Attempts) :
          Attempts[k].res = "success" => NextCandidateTried(k)

\* auto_book: the first slot is reserved, its confirmation fails and the
\* second candidate is attempted all the same.
C22_Witness ==
    /\ config.auto_book
    /\ Len(Attempts) >= 2
    /\ Attempts[1].res = "success"
    /\ \E p \in LogPositions : log[p] = Ev("confirm_booking", 1, "failed")
    /\ Len(booked_slots) >= 1 /\ booked_slots[1] = filtered[1]

\* C23: after an Alert or an Error on a candidate the slot is not recorded
\* as booked and the next candidate is attempted in the same cycle; an
\* Alert is followed by one notification with the alert, an Error by none.
C23_SlotFailuresDoNotAbort ==
    /\ Len(Attempts) > 0 => booked_slots = ReservedInOrder
    /\ \A k \in 1..Len(Attempts) :
          Attempts[k].res \in {"alert", "error"} => NextCandidateTried(k)
    /\ \A p \in LogPositions :
          /\ AttemptAt(p, "alert") =>
                /\ Len(log) > p
                /\ log[p + 1] = Ev("send", log[p].slot, "alert")
                /\ Len(log) > p + 1 =>
                      ~(log[p + 2].op = "send" /\ log[p + 2].res \in OutcomeTexts)
          /\ AttemptAt(p, "error") =>
                (Len(log) > p =>
                      ~(log[p + 1].op = "send" /\ log[p + 1].res \in OutcomeTexts))
          /\ (log[p].op = "send" /\ log[p].res = "alert") =>
                p > 1 /\ AttemptAt(p - 1, "alert")

\* An alert on the first candidate, an error on the second, and the third
\* is reserved.
C23_Witness ==
    /\ Len(Attempts) = 3
    /\ Attempts[1].res = "alert"
    /\ Attempts[2].res = "error"
    /\ Attempts[3].res = "success"
    /\ booked_slots = <<filtered[3]>>

----------------------------------------------------------------------------
(* Properties of the cycle as a whole, checked under Spec *)

\* The iteration holds an empty snapshot.
SnapshotIsEmpty == pc = "got_slots" /\ all_slots = << >>

\* C24: a cycle with an empty snapshot is counted, sleeps at the cadence of
\* the current mode and goes on to the next cycle; it runs no filter and
\* attempts no reservation, and it leaves the known bookings as they are
\* and the scheduler as it is but for a tick.
C24_EmptySnapshotCycle ==
    [][SnapshotIsEmpty =>
          /\ pc' = "loop_top"
          /\ cycle_counter' = cycle_counter + 1
          /\ slot_found_counter' = slot_found_counter
          /\ \E d \in sleep_random(RM', backoff_multiplier) :
                /\ log' = Append(log, Ev("sleep_random", 0, d))
                /\ now' = now + d
          /\ \A p \in 1..Len(log') : log'[p].op \notin {"filter", "reserve_slot"}
          /\ frame' = frame /\ filtered' = filtered
          /\ booked_slots' = booked_slots
          /\ all_manual_bookings' = all_manual_bookings
          /\ RM' \in {RM, tick(RM, now)}]_vars

\* An empty snapshot during an aggressive burst: the cycle has slept 2 to
\* 4 seconds and is counted.
C24_Witness ==
    /\ pc = "loop_top"
    /\ all_slots = << >>
    /\ in_aggressive(RM)
    /\ Len(log) = 3
    /\ log[2].op = "get_slot_statuses"
    /\ log[3].op = "sleep_random" /\ log[3].res \in {2, 4}
    /\ cycle_counter = 2

\* The polling loop has been left without an exception.
LoopLeftNormally == pc \in {"stopped", "dry_run_done"}

\* The current iteration read a stop command.
StopRead == log # << >> /\ log[1] = Ev("check_commands", 0, "stop")

\* C25: without an exception the polling loop ends only when a stop
\* command is read at the start of a cycle, whatever dry_run and auto_book
\* are and whatever the cycles found, booked or saw confirmed.
C25_LoopEndsOnlyOnStop == LoopLeftNormally => StopRead

\* What an iteration does after its commands were read.
CycleWork ==
    {"get_slot_statuses", "filter", "on_slot_detected", "reserve_slot",
     "confirm_booking", "sleep", "is_slot_confirmed", "get_all_manual_bookings",
     "sleep_random"}

\* The commands are read first in the iteration and only then.
CommandsReadOnce ==
    log # << >> =>
        /\ log[1].op = "check_commands"
        /\ \A p \in 2..Len(log) : log[p].op # "check_commands"

\* After a stop command the iteration does no work and the loop is left.
StopEndsTheLoop ==
    StopRead =>
        /\ pc = "stopped"
        /\ \A p \in LogPositions : log[p].op \notin CycleWork

\* C26: the stop signal is checked once per cycle, at its start and not
\* between reservation attempts; once stop is read there is no snapshot
\* fetch, filter run, reservation attempt or confirmation any more.
C26_StopCheckedOncePerCycle ==
    /\ [](CommandsReadOnce /\ StopEndsTheLoop)
    /\ [][pc # "stopped"]_vars

\* Stop is read in the cycle after one that reserved slots.
C26_Witness ==
    /\ pc = "stopped"
    /\ StopRead
    /\ iterations = 2
    /\ booked_slots # << >>

\* The current iteration raised an exception.
Raised == \E p \in LogPositions : log[p].op = "raise"

\* C27: an exception raised in a cycle is caught and logged, the
\* orchestrator sleeps at the current cadence and starts another cycle, and
\* the scheduler is as it was before the failing step.
C27_CycleExceptionIsRetried ==
    [][(Raised' /\ ~Raised) =>
          /\ pc' = "loop_top"
          /\ log'[Len(log')].op = "sleep_random"
          /\ RM' = RM]_vars

\* A bookings query of the current iteration landed on the login page.
LoginPageSeen ==
    \E p \in LogPositions :
        log[p].op = "get_all_manual_bookings" /\ log[p].res = "login page"

\* C28: a bookings query that lands on the login page is a fatal error for
\* the caller, distinct from no bookings: the orchestrator does not go on
\* re-checking, polling or reserving.
C28_LoginLossIsFatal == LoginPageSeen => pc = "crashed"

\* C29: the backoff multiplier is at least 1.0 and never decreases, it is
\* above 1.0 once a cycle has failed, and the scheduler's calls neither
\* read nor write it.
C29_BackoffGrowsUnderFailures ==
    /\ [](backoff_multiplier >= 1)
    /\ [][backoff_multiplier' >= backoff_multiplier]_vars
    /\ [][RM' # RM => backoff_multiplier' = backoff_multiplier]_vars
    /\ [](Raised => backoff_multiplier > 1)

----------------------------------------------------------------------------
(* Properties of the end of a cycle, of dry runs and of the refresh of the
   known bookings, checked under Spec *)

\* C31: every cycle that goes on to another poll ends with one sleep at
\* the cadence of the current mode times the backoff multiplier and is
\* counted once, also a cycle whose reservation was seen confirmed.
C31_EveryCycleSleepsAndCounts ==
    [][(pc # "loop_top" /\ pc' = "loop_top") =>
          /\ log' # << >>
          /\ log'[Len(log')].op = "sleep_random"
          /\ log'[Len(log')].res \in sleep_random(RM', backoff_multiplier)
          /\ cycle_counter' = cycle_counter + 1]_vars

\* The messages of a dry run about the matched slots.
WouldBook == SelectSeq(log, LAMBDA e : e.op = "send" /\ e.res = "would book")

\* What a cycle does to the portal or to the known bookings.
PortalChanges ==
    {"reserve_slot", "confirm_booking", "sleep", "is_slot_confirmed",
     "get_all_manual_bookings"}

\* C32: with dry_run no reservation and no confirmation is made in any
\* cycle; the matched slots are reported, one message per slot in the
\* order of filtered, and the known bookings stay as they are.
C32_DryRunOnlyReports ==
    /\ [](config.dry_run =>
            /\ \A p \in LogPositions : log[p].op \notin PortalChanges
            /\ pc \notin {"reserve", "after_reserve", "recheck"}
            /\ pc = "dry_run_done" =>
                  WouldBook = [k \in 1..Len(filtered) |-> Ev("send", k, "would book")])
    /\ [][config.dry_run => all_manual_bookings' = all_manual_bookings]_vars

\* A dry run has reported three matched slots.
C32_Witness ==
    /\ config.dry_run
    /\ pc = "dry_run_done"
    /\ Len(filtered) = 3
    /\ Len(WouldBook) = 3

\* C37: the known bookings, once not empty, are never replaced by an empty
\* list: when the query after a confirmed slot returns nothing the list is
\* kept, and the filter of a later cycle is run on the list as kept.
C37_RefreshKeepsBookingsOnEmpty ==
    [][/\ all_manual_bookings # << >> => all_manual_bookings' # << >>
       /\ ( /\ pc = "recheck"
            /\ Len(log') > Len(log)
            /\ log'[Len(log')].op = "get_all_manual_bookings"
            /\ log'[Len(log')].res # "rows" ) =>
                all_manual_bookings' = all_manual_bookings
       /\ (pc = "got_slots" /\ all_slots # << >>) =>
                frame' = filter_practical_slots(all_slots, config, all_manual_bookings')]_vars

\* The query after a confirmed slot landed on the login page and the
\* booking known since startup is still there.
C37_Witness ==
    /\ pc = "recheck"
    /\ log # << >>
    /\ log[Len(log)].op = "get_all_manual_bookings"
    /\ log[Len(log)].res = "login page"
    /\ all_manual_bookings = <<[date |-> "2025-01-01", session |-> 5]>>

----------------------------------------------------------------------------
(* Properties of the modes of RefreshMode, checked under SchedSpec *)

\* C33: Probe and Aggressive exclude each other: probe_mode is never true
\* while aggressive_cycles is positive.
C33_ProbeAndAggressiveExclusive == ~(probe_mode /\ aggressive_cycles > 0)

\* A filtered match found the object in Probe: the burst starts and
\* Probe is over.
C33_Witness ==
    /\ CalledWithMatches
    /\ last_call.before.probe_mode
    /\ last_call.before.aggressive_cycles = 0
    /\ aggressive_cycles > 0
    /\ ~probe_mode

\* The step is a tick() that found a running burst.
TickInBurst ==
    /\ aggressive_cycles > 0
    /\ last_call' = [name |-> "tick", before |-> RM, at |-> now]

\* C34: aggressive_cycles stays within 0..maxAggro; every tick of a burst
\* takes one cycle off and only a call with filtered matches raises the
\* count, so that a burst without new matches is over after at most
\* maxAggro ticks.
C34_BurstBoundedByMaxAggro ==
    /\ [](aggressive_cycles \in 0..aggro_range[2])
    /\ [][TickInBurst => aggressive_cycles' = aggressive_cycles - 1]_vars
    /\ [][aggressive_cycles' > aggressive_cycles => CalledWithMatches']_vars

\* The last tick of a burst of the default range, which started with at
\* least 6 cycles, when no time has passed since construction.
C34_Witness ==
    /\ aggro_range = DefaultAggroRange
    /\ CalledTick
    /\ last_call.before.aggressive_cycles = 1
    /\ aggressive_cycles = 0
    /\ now = 0

----------------------------------------------------------------------------
(* More properties of the filter *)

\* C35: a matched slot on a date with existing bookings has a session
\* strictly earlier than every existing booking of that date, also when
\* the known bookings hold more than one booking of the date.
C35_MatchEarlierThanEveryBooking ==
    FilterReturned =>
        \A i \in SlotPositions :
            IsMatched(i) =>
                \A k \in 1..Len(all_manual_bookings) :
                    all_manual_bookings[k].date = SlotDate(i) =>
                        SlotSession(i) < all_manual_bookings[k].session

\* C36: the filter is idempotent: applied to its own result with the same
\* policy and the same bookings it returns that result, with and without
\* one_slot_per_day (checked under FilterTwiceSpec).
C36_FilterIdempotent ==
    /\ pc # "refilter_raised"
    /\ pc = "refiltered" => frame.filtered = filtered

\* With one_slot_per_day the first call matched an upgrade and dropped the
\* other slot of that date; the second call was given the upgrade alone
\* and matched it again.
C36_Witness ==
    /\ pc = "refiltered"
    /\ config.one_slot_per_day
    /\ Len(all_slots) = 2
    /\ SlotDate(1) = SlotDate(2)
    /\ filtered = <<all_slots[1]>>
    /\ Len(frame.sent) = 1
    /\ frame.filtered = filtered
    /\ filter_practical_slots(all_slots, [config EXCEPT !.one_slot_per_day = FALSE],
                              all_manual_bookings).filtered = all_slots

----------------------------------------------------------------------------
(* Properties of TelegramBot.check_commands, checked under BotSpec *)

\* The update is a recognized command of the authorized chat.
IsCommand(update) ==
    /\ update.kind = "text"
    /\ update.chat = ChatId
    /\ StripLower(update.text) \in {"/stop", "/status", "/screen", "/stats"}

\* The update ids the stored id has reached.
Reached ==
    IF frame.last_checked_update_id = None THEN {}
    ELSE 1..frame.last_checked_update_id

\* The update ids of the commands returned so far, in the order of the
\* calls.
ReturnedIds == [k \in 1..Len(frame.returned) |-> frame.returned[k].update_id]

\* C38: over successive calls every recognized command of the authorized
\* chat that the stored id has reached was returned exactly once, in the
\* order of the updates, also when one answer holds several updates; the
\* stored id never passes an update the loop has not looked at and never
\* decreases; an update of another chat never yields a command.
C38_CommandsOnceInOrder ==
    /\ [](pc = "bot" =>
            /\ \A id \in Reached : id \in frame.examined
            /\ \A id \in Reached :
                  IsCommand(frame.updates[id]) <=>
                      (\E k \in 1..Len(ReturnedIds) : ReturnedIds[k] = id)
            /\ \A k1, k2 \in 1..Len(ReturnedIds) :
                  k1 < k2 => ReturnedIds[k1] < ReturnedIds[k2]
            /\ \A k \in 1..Len(frame.returned) :
                  /\ frame.updates[frame.returned[k].update_id].chat = ChatId
                  /\ frame.returned[k].cmd =
                        CommandOf(StripLower(frame.updates[frame.returned[k].update_id].text)))
    /\ [][pc = "bot" =>
            frame'.last_checked_update_id >= frame.last_checked_update_id]_vars

\* One answer held three updates: a command of another chat, then two
\* commands of the authorized chat; the call returned the first of the
\* two and the stored id stays before the second.
C38_Witness ==
    /\ pc = "bot"
    /\ frame.batch = 3
    /\ frame.updates[1].chat = OtherChat /\ frame.updates[1].text = "/stop"
    /\ frame.updates[2] = [kind |-> "text", chat |-> ChatId, text |-> " /Status "]
    /\ frame.updates[3] = [kind |-> "text", chat |-> ChatId, text |-> "/stop"]
    /\ frame.ret = "status"
    /\ frame.returned = <<[update_id |-> 2, cmd |-> "status"]>>
    /\ frame.last_checked_update_id = 2

----------------------------------------------------------------------------
(* Properties of LessonHandler, checked under HandlerSpec *)

\* C39: wait_for_full_booking_msg_or_table retries at most once: after a
\* timeout it reloads, selects the course again and waits one more time,
\* and no wait is started after a second timeout.
C39_WaitRetriesAtMostOnce == frame.depth <= 1

\* No attempt of the running or finished select_course call before the
\* last one reported success.
EarlierAttemptsFailed ==
    \A k \in 1..(Len(frame.outcomes) - 1) : frame.outcomes[k] # "selected"

\* C40: select_course makes at most 3 attempts, returns normally only in
\* an attempt whose selection script reported success, and raises when all
\* 3 attempts failed, so that its caller goes on only with a course
\* selected.
C40_SelectCourseThreeAttempts ==
    /\ Len(frame.outcomes) <= max_retries
    /\ frame.attempt <= max_retries
    /\ EarlierAttemptsFailed
    /\ frame.select = "returned" =>
          /\ frame.outcomes # << >>
          /\ frame.outcomes[Len(frame.outcomes)] = "selected"
    /\ frame.select = "raised" <=>
          /\ Len(frame.outcomes) = max_retries
          /\ frame.outcomes[max_retries] # "selected"
    /\ (pc = "wait" /\ frame.depth > 0) => frame.select = "returned"

\* The dropdown was missing, then hidden, then the script returned false:
\* the call of main() raised after its third attempt.
C40_Witness ==
    /\ pc = "handler_done"
    /\ frame.caller = "main"
    /\ frame.outcomes = <<"dropdown not found", "dropdown not interactive",
                          "script returned false">>
    /\ frame.select = "raised"
    /\ frame.result = "raised"

====
